---- MODULE Spec2Model ----
(***************************************************************************)
(* A model of the job-search / job-analysis pipeline of dc-bot:            *)
(*   src/src/workflow/job_analysis.py  URL validation, strategy selection, *)
(*                                     static and dynamic fetch, analysis  *)
(*   src/src/llm/tools.py              parameter resolution, salary ranges *)
(* Strings are sequences of one-character strings, so that parsing,        *)
(* lower-casing, prefix and substring tests are computed, not assumed.     *)
(***************************************************************************)
EXTENDS Integers, Sequences, FiniteSets, TLC

VARIABLES
    \* ---- URL validation, called on its own (validate_url_security) ----
    vparts,          \* the components the input string was written from
    vurl,            \* the input string
    vpc,             \* "call" | "returned" | "raised"
    vresult,         \* the value returned (FALSE until the call returns)
    \* ---- one analysis request (analyze_job_detail) ----
    entry,           \* the function the caller invoked
    job_query,       \* the caller's string
    pc,              \* position in the request
    url,             \* extract_url_from_query's result, or None
    validated,       \* "not_run" | "accepted" | "rejected": validate_url_security's verdict
    strategy,        \* "none" | "static" | "dynamic"
    httpGets,        \* HTTP GETs issued by this request
    launches,        \* browsers launched by this request
    playwrightActive,\* inside the "async with async_playwright()" block
    browserOpen,     \* a launched browser process is alive
    contextOpen,     \* a browser context is open
    closeCalled,     \* browser.close() was executed
    page,            \* what the site served for this request
    content,         \* the extractor's result inside fetch_dynamic_content
    webpage_content, \* fetch_webpage_content's result
    formatted_info,  \* the job information put into the prompt
    llmCalls,        \* calls of call_llm
    failure,         \* the injected failure, "none" when nothing failed
    \* ---- parameter resolution (convert_tool_params_to_search_params) ----
    tool_params,     \* the loosely typed dictionary of the LLM
    ppc,             \* "call" | "returned" | "raised"
    search_params,   \* the mapping returned
    \* ---- parse_salary_range ----
    salary_range,    \* the input string
    spc,             \* "call" | "returned" | "raised"
    salary_info,     \* the dictionary returned
    \* ---- one invocation of search_104_jobs ----
    search_args,     \* the keyword arguments of the invocation
    jpc,             \* "call" | "built" | "returned" | "failed" | "build_raised"
    query_params,    \* params, the outbound query parameters
    jgets,           \* HTTP GETs issued by this invocation
    jresult,         \* what the caller receives: the payload or the exception
    \* ---- extract_json_from_text ----
    js_text,         \* the text, a sequence of lexemes
    js_pc,           \* "call" | "returned" | "raised"
    js_result,       \* the value returned
    \* ---- chat_with_job_search of workflow/job_search.py ----
    cj_pc,           \* "start" | "replied" | "searching" | "formatted" | "returned" | "raised"
    cj_reply,        \* the first LLM reply: its text and the members "m" stands for
    cj_params,       \* the local search_params
    cj_calls,        \* the external calls made so far, in order
    cj_result,       \* the dictionary result
    cj_exc,          \* the exception raised by the search step or leaving the function
    \* ---- chat_with_job_search of llm_job_search_example.py ----
    tc_pc,           \* "start" | "responded" | "looping" | "returned" | "raised"
    tc_response,     \* the first LLM response
    tc_tool_calls,   \* the list extract_tool_calls gave
    tc_idx,          \* the number of tool calls the loop is done with
    tc_messages,     \* the list messages
    tc_sent,         \* the lists of messages sent to the LLM, in order
    tc_calls,        \* the external calls made so far, in order
    tc_result,       \* the dictionary result
    tc_exc,          \* the exception leaving the function
    \* ---- format_job_search_results ----
    fm_payload,      \* the argument result
    fm_max_jobs,     \* the argument max_jobs
    fm_pc,           \* "call" | "returned"
    fm_result,       \* the text returned
    \* ---- extract_section ----
    xs_lines,        \* the argument lines
    xs_start,        \* the argument start_marker
    xs_end,          \* the argument end_marker
    xs_pc,           \* "call" | "returned"
    xs_result,       \* the lines of the text returned
    \* ---- the command handlers of bot/commands.py on one event loop ----
    bt_cmd,          \* per request: the command invoked
    bt_pc,           \* per request: the position of its handler
    bt_plan,         \* per request: the external calls its pipeline still makes
    bt_outcome,      \* per request: the dictionary its pipeline returned
    bt_exc,          \* per request: the exception raised inside the try block
    bt_log,          \* per request: the calls made on the interaction
    bt_todo,         \* per request: the chunks not sent yet
    bt_loop          \* the request whose blocking call holds the event loop

urlVars == <<vparts, vurl, vpc, vresult>>
reqVars == <<entry, job_query, pc, url, validated, strategy, httpGets, launches,
             playwrightActive, browserOpen, contextOpen, closeCalled, page,
             content, webpage_content, formatted_info, llmCalls, failure>>
parVars == <<tool_params, ppc, search_params>>
salVars == <<salary_range, spc, salary_info>>
srchVars == <<search_args, jpc, query_params, jgets, jresult>>
baseVars == <<urlVars, reqVars, parVars, salVars>>
jsonVars == <<js_text, js_pc, js_result>>
chatVars == <<cj_pc, cj_reply, cj_params, cj_calls, cj_result, cj_exc>>
toolVars ==
    <<tc_pc, tc_response, tc_tool_calls, tc_idx, tc_messages, tc_sent, tc_calls,
      tc_result, tc_exc>>
fmtVars == <<fm_payload, fm_max_jobs, fm_pc, fm_result>>
secVars == <<xs_lines, xs_start, xs_end, xs_pc, xs_result>>
botVars == <<bt_cmd, bt_pc, bt_plan, bt_outcome, bt_exc, bt_log, bt_todo, bt_loop>>
moreVars == <<srchVars, jsonVars, chatVars, toolVars, fmtVars, secVars, botVars>>
srchRest == <<jsonVars, chatVars, toolVars, fmtVars, secVars, botVars>>
jsonRest == <<srchVars, chatVars, toolVars, fmtVars, secVars, botVars>>
chatRest == <<srchVars, jsonVars, toolVars, fmtVars, secVars, botVars>>
toolRest == <<srchVars, jsonVars, chatVars, fmtVars, secVars, botVars>>
fmtRest == <<srchVars, jsonVars, chatVars, toolVars, secVars, botVars>>
secRest == <<srchVars, jsonVars, chatVars, toolVars, fmtVars, botVars>>
botRest == <<srchVars, jsonVars, chatVars, toolVars, fmtVars, secVars>>
vars == <<baseVars, moreVars>>

\* Python's None where a string is expected: a one-element sequence that is
\* no string of characters.
None == <<"None">>

\* Python's None where a structured value (a page, an extracted content, a
\* dictionary) is expected.
Nothing == [kind |-> "None"]

(***************************************************************************)
(* Strings                                                                 *)
(***************************************************************************)
RECURSIVE Concat(_)
\* The concatenation of a sequence of strings.
Concat(ss) ==
    IF ss = <<>> THEN <<>> ELSE Head(ss) \o Concat(Tail(ss))

\* s[i:j] of Python, 0-based, j exclusive, clipped to the string.
Slice(s, i, j) ==
    LET hi == IF j > Len(s) THEN Len(s) ELSE j
    IN  IF i >= hi THEN <<>> ELSE SubSeq(s, i + 1, hi)

\* s.startswith(p)
StartsWith(s, p) ==
    /\ Len(p) <= Len(s)
    /\ SubSeq(s, 1, Len(p)) = p

\* p occurs in s at the 0-based offset i.
OccursAt(s, p, i) ==
    /\ i + Len(p) <= Len(s)
    /\ SubSeq(s, i + 1, i + Len(p)) = p

\* "p in s" for strings.
Contains(s, p) ==
    \E i \in 0..Len(s) : OccursAt(s, p, i)

\* s.find(c) for a one-character string c: the 0-based index of the first
\* occurrence at or after the offset from, or -1.
Find(s, c, from) ==
    LET hits == {i \in from..(Len(s) - 1) : s[i + 1] = c}
    IN  IF hits = {} THEN -1 ELSE CHOOSE i \in hits : \A k \in hits : i <= k

\* s.rfind(c): the 0-based index of the last occurrence, or -1.
RFind(s, c) ==
    LET hits == {i \in 0..(Len(s) - 1) : s[i + 1] = c}
    IN  IF hits = {} THEN -1 ELSE CHOOSE i \in hits : \A k \in hits : i >= k

UpperToLower ==
    [c \in {"A", "C", "H", "L", "O", "P", "S", "T"} |->
        CASE c = "A" -> "a" [] c = "C" -> "c" [] c = "H" -> "h" [] c = "L" -> "l"
          [] c = "O" -> "o" [] c = "P" -> "p" [] c = "S" -> "s" [] c = "T" -> "t"]

\* str.lower()
Lower(s) ==
    [i \in 1..Len(s) |-> IF s[i] \in DOMAIN UpperToLower THEN UpperToLower[s[i]] ELSE s[i]]

LowerLetters ==
    {"a", "b", "c", "d", "e", "f", "g", "h", "i", "j", "k", "l", "m", "n", "o",
     "p", "q", "r", "s", "t", "u", "v", "w", "x", "y", "z"}

Digits == {"0", "1", "2", "3", "4", "5", "6", "7", "8", "9"}

Letters == LowerLetters \cup DOMAIN UpperToLower

\* Whitespace of the regular expression class \s and of str.strip().
Whitespace == {" ", "\t", "\n"}

(***************************************************************************)
(* urllib.parse.urlparse, as validate_url_security uses it (scheme and     *)
(* hostname only).                                                         *)
(***************************************************************************)
\* The characters a URL scheme is made of.
SchemeChars == Letters \cup Digits \cup {"+", "-", "."}

\* The split of a URL at its scheme: the scheme is the text before the
\* first ":" when that text starts with a letter and holds scheme
\* characters only; it is lower-cased. Otherwise there is no scheme.
SplitScheme(u) ==
    LET i == Find(u, ":", 0)
    IN  IF /\ i > 0
           /\ u[1] \in Letters
           /\ \A k \in 1..i : u[k] \in SchemeChars
        THEN [scheme |-> Lower(Slice(u, 0, i)), rest |-> Slice(u, i + 1, Len(u))]
        ELSE [scheme |-> <<>>, rest |-> u]

\* The network location: after a leading "//", up to the first of / ? #.
Netloc(rest) ==
    IF Slice(rest, 0, 2) # <<"/", "/">> THEN <<>>
    ELSE LET ends == {i \in 2..(Len(rest) - 1) : rest[i + 1] \in {"/", "?", "#"}}
             stop == IF ends = {} THEN Len(rest)
                     ELSE CHOOSE i \in ends : \A k \in ends : i <= k
         IN  Slice(rest, 2, stop)

\* A network location with one bracket and not the other.
UnbalancedBrackets(n) ==
    \/ (Contains(n, <<"[">>) /\ ~Contains(n, <<"]">>))
    \/ (Contains(n, <<"]">>) /\ ~Contains(n, <<"[">>))

\* urlparse raises ValueError("Invalid IPv6 URL") on an unbalanced bracket.
UrlparseRaises(u) == UnbalancedBrackets(Netloc(SplitScheme(u).rest))

\* The text s up to the first occurrence of the character c, all of s when
\* c does not occur.
UpTo(s, c) == Slice(s, 0, IF Find(s, c, 0) < 0 THEN Len(s) ELSE Find(s, c, 0))

\* The host of the host-and-port text: the text between brackets, or the
\* text up to the first ":".
HostOfHostinfo(hostinfo) ==
    IF Find(hostinfo, "[", 0) >= 0
    THEN UpTo(Slice(hostinfo, Find(hostinfo, "[", 0) + 1, Len(hostinfo)), "]")
    ELSE UpTo(hostinfo, ":")

\* None for the empty host, the lower-cased host otherwise.
LowerOrNone(host) == IF host = <<>> THEN None ELSE Lower(host)

\* The hostname of the network location n: what follows its last "@".
HostnameOfNetloc(n) ==
    LowerOrNone(HostOfHostinfo(Slice(n, RFind(n, "@") + 1, Len(n))))

\* ParseResult.hostname: the text after the last "@", up to the first ":"
\* (or between brackets), lower-cased; None when it is empty.
Hostname(u) == HostnameOfNetloc(Netloc(SplitScheme(u).rest))

(***************************************************************************)
(* validate_url_security                                                   *)
(***************************************************************************)
s_http      == <<"h", "t", "t", "p">>
s_https     == <<"h", "t", "t", "p", "s">>
s_localhost == <<"l", "o", "c", "a", "l", "h", "o", "s", "t">>
s_loopback  == <<"1", "2", "7", ".", "0", ".", "0", ".", "1">>
s_anyaddr   == <<"0", ".", "0", ".", "0", ".", "0">>
s_10        == <<"1", "0", ".">>
s_172       == <<"1", "7", "2", ".">>
s_192_168   == <<"1", "9", "2", ".", "1", "6", "8", ".">>

allowed_schemes == {s_http, s_https}

\* blocked_hosts with one entry forgotten.
blocked_hosts_without_anyaddr == {s_localhost, s_loopback}

blocked_hosts == {s_localhost, s_loopback, s_anyaddr}

private_prefixes == {s_10, s_172, s_192_168}

\* The body of validate_url_security's try block: the value it returns, or
\* the exception that leaves it (urlparse's ValueError).
\* The tests of the try block on the parsed scheme and hostname.
checks_pass(scheme, hostname) ==
    IF scheme \notin allowed_schemes THEN FALSE
    ELSE IF hostname = None THEN FALSE
    ELSE IF Lower(hostname) \in blocked_hosts THEN FALSE
    ELSE IF \E p \in private_prefixes : StartsWith(hostname, p) THEN FALSE
    ELSE TRUE

validate_try_body(u) ==
    IF UrlparseRaises(u) THEN [exc |-> TRUE, ret |-> FALSE]
    ELSE [exc |-> FALSE, ret |-> checks_pass(SplitScheme(u).scheme, Hostname(u))]

\* "except Exception: return False" around the body's outcome b.
except_returns_false(b) ==
    IF b.exc THEN [raised |-> FALSE, ret |-> FALSE]
    ELSE [raised |-> FALSE, ret |-> b.ret]

\* validate_url_security(u): "except Exception" turns an exception of the
\* body into the value False.
validate_url_security(u) == except_returns_false(validate_try_body(u))

(***************************************************************************)
(* Input strings for validate_url_security, written from components.       *)
(***************************************************************************)
s_ftp         == <<"f", "t", "p">>
s_HTTP        == <<"H", "T", "T", "P">>
s_LOCALHOST   == <<"L", "O", "C", "A", "L", "H", "O", "S", "T">>
s_host        == <<"h", "o", "s", "t">>
s_www104      == <<"w", "w", "w", ".", "1", "0", "4", ".", "c", "o", "m", ".", "t", "w">>
s_104         == <<"1", "0", "4", ".", "c", "o", "m", ".", "t", "w">>
s_192_168_1_5 == <<"1", "9", "2", ".", "1", "6", "8", ".", "1", ".", "5">>
s_192_169_1_5 == <<"1", "9", "2", ".", "1", "6", "9", ".", "1", ".", "5">>
s_10_0_0_1    == <<"1", "0", ".", "0", ".", "0", ".", "1">>
s_172_16_0_1  == <<"1", "7", "2", ".", "1", "6", ".", "0", ".", "1">>
s_100tw       == <<"1", "0", "0", ".", "t", "w">>
s_v6loop      == <<":", ":", "1">>
s_sep         == <<":", "/", "/">>
s_port80      == <<":", "8", "0">>
s_path_x      == <<"/", "x">>
s_path_job    == <<"/", "j", "o", "b", "/", "a", "b", "c", "1", "2", "3">>
s_path_at     == <<"/", "@", "1", "0", ".", "0", ".", "0", ".", "1">>

UrlSchemes == {<<>>, s_http, s_https, s_ftp, s_HTTP}

UrlUsers == {<<>>, <<"u">>, s_localhost}

UrlHosts ==
    {[name |-> n, form |-> "plain"] :
        n \in {<<>>, s_localhost, s_LOCALHOST, s_loopback, s_anyaddr, s_192_168_1_5,
               s_192_169_1_5, s_10_0_0_1, s_172_16_0_1, s_100tw, s_host, s_www104, s_104}}
    \cup {[name |-> s_v6loop, form |-> f] : f \in {"bracketed", "unclosed"}}

UrlPorts == {<<>>, s_port80}

UrlPaths == {<<>>, s_path_x, s_path_job, s_path_at}

UrlParts ==
    [scheme : UrlSchemes, user : UrlUsers, host : UrlHosts, port : UrlPorts, path : UrlPaths]

\* The string a URL with these components is written as.
WriteUrl(p) ==
    Concat(<<IF p.scheme = <<>> THEN <<>> ELSE p.scheme \o s_sep,
             IF p.user = <<>> THEN <<>> ELSE p.user \o <<"@">>,
             CASE p.host.form = "plain"     -> p.host.name
               [] p.host.form = "bracketed" -> <<"[">> \o p.host.name \o <<"]">>
               [] p.host.form = "unclosed"  -> <<"[">> \o p.host.name,
             p.port,
             p.path>>)

(***************************************************************************)
(* validate_url_security called on its own                                 *)
(***************************************************************************)
IdleReq ==
    /\ entry = "idle" /\ job_query = <<>> /\ pc = "idle" /\ url = None
    /\ validated = "not_run" /\ strategy = "none" /\ httpGets = 0 /\ launches = 0
    /\ playwrightActive = FALSE /\ browserOpen = FALSE /\ contextOpen = FALSE
    /\ closeCalled = FALSE /\ page = Nothing /\ content = Nothing
    /\ webpage_content = Nothing /\ formatted_info = Nothing /\ llmCalls = 0
    /\ failure = "none"

IdleUrl == vparts = Nothing /\ vurl = <<>> /\ vpc = "idle" /\ vresult = FALSE

IdlePar == tool_params = Nothing /\ ppc = "idle" /\ search_params = Nothing

IdleSal == salary_range = Nothing /\ spc = "idle" /\ salary_info = Nothing

IdleSrch ==
    /\ search_args = Nothing /\ jpc = "idle" /\ query_params = Nothing
    /\ jgets = 0 /\ jresult = Nothing

IdleBase == IdleReq /\ IdleUrl /\ IdlePar /\ IdleSal

IdleJson == js_text = Nothing /\ js_pc = "idle" /\ js_result = Nothing

IdleChat ==
    /\ cj_pc = "idle" /\ cj_reply = Nothing /\ cj_params = Nothing
    /\ cj_calls = <<>> /\ cj_result = Nothing /\ cj_exc = Nothing

IdleTool ==
    /\ tc_pc = "idle" /\ tc_response = Nothing /\ tc_tool_calls = <<>>
    /\ tc_idx = 0 /\ tc_messages = <<>> /\ tc_sent = <<>> /\ tc_calls = <<>>
    /\ tc_result = Nothing /\ tc_exc = Nothing

IdleFmt ==
    /\ fm_payload = Nothing /\ fm_max_jobs = 0 /\ fm_pc = "idle" /\ fm_result = Nothing

IdleSec ==
    /\ xs_lines = <<>> /\ xs_start = <<>> /\ xs_end = <<>> /\ xs_pc = "idle" /\ xs_result = <<>>

IdleBot ==
    /\ bt_cmd = <<>> /\ bt_pc = <<>> /\ bt_plan = <<>> /\ bt_outcome = <<>>
    /\ bt_exc = <<>> /\ bt_log = <<>> /\ bt_todo = <<>> /\ bt_loop = "idle"

IdleMore == IdleSrch /\ IdleJson /\ IdleChat /\ IdleTool /\ IdleFmt /\ IdleSec /\ IdleBot

IdleSrchRest == IdleJson /\ IdleChat /\ IdleTool /\ IdleFmt /\ IdleSec /\ IdleBot

IdleJsonRest == IdleSrch /\ IdleChat /\ IdleTool /\ IdleFmt /\ IdleSec /\ IdleBot

IdleChatRest == IdleSrch /\ IdleJson /\ IdleTool /\ IdleFmt /\ IdleSec /\ IdleBot

IdleToolRest == IdleSrch /\ IdleJson /\ IdleChat /\ IdleFmt /\ IdleSec /\ IdleBot

IdleFmtRest == IdleSrch /\ IdleJson /\ IdleChat /\ IdleTool /\ IdleSec /\ IdleBot

IdleSecRest == IdleSrch /\ IdleJson /\ IdleChat /\ IdleTool /\ IdleFmt /\ IdleBot

IdleBotRest == IdleSrch /\ IdleJson /\ IdleChat /\ IdleTool /\ IdleFmt /\ IdleSec

InitUrl ==
    /\ vparts \in UrlParts
    /\ vurl = WriteUrl(vparts)
    /\ vpc = "call"
    /\ vresult = FALSE
    /\ IdleReq /\ IdlePar /\ IdleSal /\ IdleMore

\* The call validate_url_security(vurl) and its return.
ValidateCall ==
    /\ vpc = "call"
    /\ vpc' = IF validate_url_security(vurl).raised THEN "raised" ELSE "returned"
    /\ vresult' = validate_url_security(vurl).ret
    /\ UNCHANGED <<vparts, vurl, reqVars, parVars, salVars, moreVars>>

NextUrl == ValidateCall

SpecUrl == InitUrl /\ [][NextUrl]_vars

(***************************************************************************)
(* extract_url_from_query: re.search(r'https?://[^\s]+', query)            *)
(***************************************************************************)
s_http_sep  == s_http \o s_sep
s_https_sep == s_https \o s_sep

\* The length of the text "https?://" matches at the 0-based offset i, or 0.
UrlPrefixAt(q, i) ==
    IF OccursAt(q, s_https_sep, i) THEN Len(s_https_sep)
    ELSE IF OccursAt(q, s_http_sep, i) THEN Len(s_http_sep)
    ELSE 0

\* The pattern matches at offset i: the prefix and at least one character
\* that is not whitespace.
UrlMatchesAt(q, i) ==
    LET k == UrlPrefixAt(q, i)
    IN  /\ k > 0
        /\ i + k < Len(q)
        /\ q[i + k + 1] \notin Whitespace

\* The first match, extended greedily to the next whitespace; None when
\* there is none.
extract_url_from_query(q) ==
    LET starts == {i \in 0..Len(q) : UrlMatchesAt(q, i)}
    IN  IF starts = {} THEN None
        ELSE LET i    == CHOOSE a \in starts : \A b \in starts : a <= b
                 ws   == {j \in i..(Len(q) - 1) : q[j + 1] \in Whitespace}
                 stop == IF ws = {} THEN Len(q)
                         ELSE CHOOSE a \in ws : \A b \in ws : a <= b
             IN  Slice(q, i, stop)

(***************************************************************************)
(* is_dynamic_website                                                      *)
(***************************************************************************)
dynamic_domains == {s_104}

\* any(domain in url for domain in dynamic_domains): a substring test on
\* the whole URL.
is_dynamic_website(u) ==
    \E domain \in dynamic_domains : Contains(u, domain)

(***************************************************************************)
(* fetch_static_content and extract_general_content. A text is its length  *)
(* in characters; a body is its length in bytes.                           *)
(***************************************************************************)
\* text[:1500] of extract_general_content.
content_preview_limit == 1500

\* extracted_content[:2000] of fetch_static_content.
static_limit == 2000

\* len("...")
ellipsis_len == 3

\* len of the labels of extract_general_content, each with its colon.
page_title_label_len == 5
main_title_label_len == 4
content_label_len == 3

\* chunk_size of response.iter_content.
chunk_size == 8192

\* max_size, and the limit of the Content-Length test.
max_size == 5 * 1024 * 1024

Min(a, b) == IF a < b THEN a ELSE b

\* len("\n".join(parts)) for the lengths of the parts.
RECURSIVE SumSeq(_)
SumSeq(ns) == IF ns = <<>> THEN 0 ELSE Head(ns) + SumSeq(Tail(ns))

JoinedLen(ns, sepLen) ==
    IF ns = <<>> THEN 0 ELSE SumSeq(ns) + sepLen * (Len(ns) - 1)

\* The length of extract_general_content's result for a parsed document d:
\* the title, the H1 when it differs from the title, the first 1500
\* characters of the main text; 0 is the empty string.
extract_general_content(d) ==
    LET title_part == IF d.title > 0 THEN <<page_title_label_len + d.title>> ELSE <<>>
        h1_part    == IF d.h1 > 0 /\ ~d.h1_is_title
                      THEN <<main_title_label_len + d.h1>> ELSE <<>>
        text_part  == IF d.text > 0
                      THEN <<content_label_len + Min(d.text, content_preview_limit)>>
                      ELSE <<>>
    IN  JoinedLen(title_part \o h1_part \o text_part, 1)

\* One pass of the download loop: the chunk numbered k of a body of n bytes.
ReadChunk(st, k, n) ==
    IF st.stopped THEN st
    ELSE LET chunk == Min(chunk_size, n - (k - 1) * chunk_size)
             size  == st.size + chunk
         IN  IF size > max_size
             THEN [size |-> size, got |-> st.got, stopped |-> TRUE]
             ELSE [size |-> size, got |-> st.got + chunk, stopped |-> FALSE]

\* The download loop over the chunks lo..hi, in order; after the break no
\* further chunk is read.
RECURSIVE ReadChunks(_, _, _, _)
ReadChunks(st, lo, hi, n) ==
    IF st.stopped \/ lo > hi THEN st
    ELSE IF lo = hi THEN ReadChunk(st, lo, n)
    ELSE LET mid == (lo + hi) \div 2
         IN  ReadChunks(ReadChunks(st, lo, mid, n), mid + 1, hi, n)

\* The bytes kept by "for chunk in response.iter_content(...)", and whether
\* the loop left by its break.
Download(n) ==
    ReadChunks([size |-> 0, got |-> 0, stopped |-> FALSE],
               1, (n + chunk_size - 1) \div chunk_size, n)

\* The document BeautifulSoup finds in the first got bytes of the page p.
\* The title, the heading and the main text of the pages of this model lie
\* in the first chunk; what follows them is markup the extractor strips.
ParsedDocument(p, got) ==
    IF got = 0 THEN [title |-> 0, h1 |-> 0, h1_is_title |-> FALSE, text |-> 0]
    ELSE [title |-> p.title, h1 |-> p.h1, h1_is_title |-> p.h1_is_title, text |-> p.text]

\* The length limit of fetch_static_content with the limit test dropped.
truncate_static_never(n) == n

\* "if len(extracted_content) > 2000: extracted_content[:2000] + '...'"
truncate_static(n) ==
    IF n > static_limit THEN static_limit + ellipsis_len ELSE n

\* fetch_static_content after a successful GET of the page p: the value
\* returned, Nothing for None.
static_after_get(p) ==
    IF p.content_length >= 0 /\ p.content_length > max_size THEN Nothing
    ELSE LET dl        == Download(p.body)
             extracted == extract_general_content(ParsedDocument(p, dl.got))
         IN  IF extracted = 0 THEN Nothing
             ELSE [kind |-> "static",
                   len  |-> truncate_static(extracted),
                   over_limit |-> dl.stopped]

(***************************************************************************)
(* Page text of the dynamic extractors. A line is a record [t, pad]: the   *)
(* characters t followed by pad further characters of running text, which  *)
(* are no whitespace and occur in no marker or pattern. A character that   *)
(* is not ASCII is written as its code point, "u5de5".                     *)
(***************************************************************************)
LineLen(l) == Len(l.t) + l.pad

\* "pattern in line"
LineHas(l, pattern) == Contains(l.t, pattern)

RECURSIVE LStrip(_)
LStrip(s) ==
    IF s # <<>> /\ Head(s) \in Whitespace THEN LStrip(Tail(s)) ELSE s

RECURSIVE RStrip(_)
RStrip(s) ==
    IF s # <<>> /\ s[Len(s)] \in Whitespace THEN RStrip(SubSeq(s, 1, Len(s) - 1)) ELSE s

\* str.strip()
Strip(s) == RStrip(LStrip(s))

StripLine(l) ==
    [t |-> IF l.pad > 0 THEN LStrip(l.t) ELSE Strip(l.t), pad |-> l.pad]

\* line.strip() == marker
LineIs(l, marker) == StripLine(l) = [t |-> marker, pad |-> 0]

EmptyLine == [t |-> <<>>, pad |-> 0]

IsNonEmptyLine(l) == l # EmptyLine

\* [line.strip() for line in body_text.split('\n') if line.strip()]
RECURSIVE StrippedLines(_)
StrippedLines(raw) ==
    IF raw = <<>> THEN <<>>
    ELSE LET l == StripLine(Head(raw))
         IN  (IF IsNonEmptyLine(l) THEN <<l>> ELSE <<>>) \o StrippedLines(Tail(raw))

RECURSIVE SumLineLen(_)
SumLineLen(ls) == IF ls = <<>> THEN 0 ELSE LineLen(Head(ls)) + SumLineLen(Tail(ls))

\* len(sep.join(lines)) for a separator of one character.
TextLen(ls) == IF ls = <<>> THEN 0 ELSE SumLineLen(ls) + (Len(ls) - 1)

Text(s) == [t |-> s, pad |-> 0]

(***************************************************************************)
(* extract_section                                                         *)
(***************************************************************************)
m_job_content   == <<"u5de5", "u4f5c", "u5167", "u5bb9">>
m_job_category  == <<"u8077", "u52d9", "u985e", "u5225">>
m_compensation  == <<"u5de5", "u4f5c", "u5f85", "u9047">>
m_job_nature    == <<"u5de5", "u4f5c", "u6027", "u8cea">>
m_conditions    == <<"u5de5", "u4f5c", "u689d", "u4ef6">>
m_requirements  == <<"u689d", "u4ef6", "u8981", "u6c42">>
m_photos        == <<"u516c", "u53f8", "u74b0", "u5883", "u7167", "u7247">>
m_benefits      == <<"u798f", "u5229", "u5236", "u5ea6">>
m_contact       == <<"u806f", "u7d61", "u65b9", "u5f0f">>
m_reminder      == <<"1", "0", "4", "u4eba", "u529b", "u9280", "u884c", "u63d0", "u9192", "u60a8">>
m_safety        == <<"u8077", "u5834", "u5b89", "u5168", "u63d0", "u9192">>
m_company_name  == <<"u516c", "u53f8", "u540d", "u7a31">>
m_company       == <<"u516c", "u53f8">>
m_limited       == <<"u6709", "u9650", "u516c", "u53f8">>
m_corporation   == <<"u80a1", "u4efd", "u6709", "u9650", "u516c", "u53f8">>
m_work          == <<"u5de5", "u4f5c">>
m_login         == <<"u767b", "u5165">>
m_app           == <<"A", "P", "P">>
m_career        == <<"u8077", "u6daf">>
m_comma         == <<"u3001">>

link_filter_patterns ==
    {<<"u8a8d", "u8b58">>, <<"u66f4", "u591a">>, <<"u76f8", "u95dc", "u5de5", "u4f5c">>, <<"-", "u6c42", "u8077", "u9762", "u8a66", "u5de5", "u4f5c", "u554f", "u984c">>, <<"u8077", "u52d9", "u5206", "u6790">>, <<"u6280", "u80fd", "u8b49", "u7167">>, <<"u85aa", "u8cc7", "u548c", "u5b78", "u7fd2">>}

\* The loop of extract_section from the line numbered i on: out holds the
\* lines collected so far.
RECURSIVE SectionScan(_, _, _, _, _, _)
SectionScan(lines, i, capturing, out, start_marker, end_marker) ==
    IF i > Len(lines) THEN out
    ELSE LET line == lines[i]
         IN  IF LineHas(line, start_marker)
             THEN SectionScan(lines, i + 1, TRUE,
                              IF LineIs(line, start_marker) THEN out ELSE Append(out, line),
                              start_marker, end_marker)
             ELSE IF ~capturing
             THEN SectionScan(lines, i + 1, FALSE, out, start_marker, end_marker)
             ELSE IF LineHas(line, end_marker) THEN out
             ELSE IF /\ start_marker = m_job_category
                     /\ \/ \E pattern \in link_filter_patterns : LineHas(line, pattern)
                        \/ LineIs(line, m_comma)
             THEN SectionScan(lines, i + 1, TRUE, out, start_marker, end_marker)
             ELSE SectionScan(lines, i + 1, TRUE, Append(out, line), start_marker, end_marker)

\* extract_section: the lines of '\n'.join(content_lines).strip(); the
\* lines are stripped and not empty, so the final strip removes nothing.
extract_section(lines, start_marker, end_marker) ==
    SectionScan(lines, 1, FALSE, <<>>, start_marker, end_marker)

(***************************************************************************)
(* extract_104_dynamic_content                                             *)
(***************************************************************************)
\* len(h1) < 100
h1_limit == 100

\* len(potential_title) < 50 and len(line) < 50
name_limit == 50

\* lines[:30]
company_scan_limit == 30

\* len(structured_info) > 2
structured_threshold == 2

title_blockers == {m_work, m_login, m_app, m_career}

\* The title taken from the page's h1, Nothing when there is none: the
\* locator failed, the text is empty or it has 100 characters or more.
TitleFromH1(h1) ==
    IF h1 = Nothing THEN Nothing
    ELSE IF LineLen(h1) > 0 /\ LineLen(h1) < h1_limit THEN StripLine(h1)
    ELSE Nothing

\* "if not title"
NoTitle(title) == title = Nothing \/ title = EmptyLine

\* The title inferred from the text: the line before the first line that
\* contains the word for company and whose predecessor is short and holds
\* none of the blocking words.
InferTitle(lines) ==
    LET ok == {i \in 2..Len(lines) :
                 /\ LineHas(lines[i], m_company)
                 /\ LineLen(lines[i - 1]) < name_limit
                 /\ ~\E x \in title_blockers : LineHas(lines[i - 1], x)}
    IN  IF ok = {} THEN Nothing
        ELSE lines[(CHOOSE i \in ok : \A k \in ok : i <= k) - 1]

\* The company: the first of the first 30 lines that names a limited
\* company in fewer than 50 characters.
FindCompany(lines) ==
    LET ok == {i \in 1..Min(Len(lines), company_scan_limit) :
                 /\ (LineHas(lines[i], m_corporation) \/ LineHas(lines[i], m_limited))
                 /\ LineLen(lines[i]) < name_limit}
    IN  IF ok = {} THEN Nothing
        ELSE lines[CHOOSE i \in ok : \A k \in ok : i <= k]

\* sections_to_extract, in the order of the dictionary.
sections_to_extract ==
    <<[name |-> m_job_content,  start |-> m_job_content,  stop |-> m_job_category],
      [name |-> m_job_category, start |-> m_job_category, stop |-> m_compensation],
      [name |-> m_compensation, start |-> m_compensation, stop |-> m_job_nature],
      [name |-> m_conditions,   start |-> m_job_nature,   stop |-> m_requirements],
      [name |-> m_requirements, start |-> m_requirements, stop |-> m_photos],
      [name |-> m_benefits,     start |-> m_benefits,     stop |-> m_contact],
      [name |-> m_contact,      start |-> m_contact,      stop |-> m_reminder]>>

\* The lines of the block "<open>name<close>\n" + body + "\n".
Block(name, body) ==
    <<Text(<<"u3010">> \o name \o <<"u3011">>)>> \o body \o <<EmptyLine>>

\* The blocks of the sections from the one numbered k on.
RECURSIVE SectionBlocks(_, _)
SectionBlocks(lines, k) ==
    IF k > Len(sections_to_extract) THEN <<>>
    ELSE LET sec  == sections_to_extract[k]
             body == extract_section(lines, sec.start, sec.stop)
         IN  (IF body # <<>> THEN <<Block(sec.name, body)>> ELSE <<>>)
             \o SectionBlocks(lines, k + 1)

\* structured_info
StructuredInfo(title, company, lines) ==
    (IF ~NoTitle(title) THEN <<Block(<<"u8077", "u4f4d", "u540d", "u7a31">>, <<title>>)>> ELSE <<>>)
    \o (IF company # Nothing THEN <<Block(<<"u516c", "u53f8", "u540d", "u7a31">>, <<company>>)>> ELSE <<>>)
    \o SectionBlocks(lines, 1)

RECURSIVE Flatten(_)
\* The lines of "\n".join(blocks).
Flatten(blocks) ==
    IF blocks = <<>> THEN <<>> ELSE Head(blocks) \o Flatten(Tail(blocks))

skip_patterns ==
    {<<"u767b", "u5165">>, <<"u8a3b", "u518a">>, <<"1", "0", "4", "u4eba", "u529b", "u9280", "u884c">>, <<"A", "P", "P">>, <<"u6240", "u6709", "u670d", "u52d9">>, <<"u667a", "u80fd", "u5ba2", "u670d">>, <<"u5e38", "u898b", "u554f", "u984c">>,
     <<"u96b1", "u79c1", "u4e2d", "u5fc3">>, <<"u5efa", "u8b70", "u700f", "u89bd", "u5668">>, <<"u9069", "u5408", "u4f60", "u5927", "u5c55", "u8eab", "u624b">>, <<"u6211", "u9069", "u5408", "u9019", "u4efd", "u5de5", "u4f5c", "u55ce">>, <<"u9019", "u4e9b", "u5de5", "u4f5c", "u4e5f", "u5f88", "u9069", "u5408", "u4f60">>}

content_start_markers == {m_job_content, m_job_category, m_company_name}

content_end_markers == {m_reminder, m_safety}

\* The loop that builds cleaned_lines, from the line numbered i on.
RECURSIVE CleanScan(_, _, _, _)
CleanScan(lines, i, in_content, out) ==
    IF i > Len(lines) THEN out
    ELSE LET line == lines[i]
             now  == in_content \/ \E marker \in content_start_markers : LineHas(line, marker)
         IN  IF \E pattern \in skip_patterns : LineHas(line, pattern)
             THEN CleanScan(lines, i + 1, now, out)
             ELSE IF \E marker \in content_end_markers : LineHas(line, marker) THEN out
             ELSE CleanScan(lines, i + 1, now, IF now THEN Append(out, line) ELSE out)

EmptyContent == [kind |-> "empty", text |-> <<>>, len |-> 0]

\* extract_104_dynamic_content on the page p: the structured result when
\* structured_info has more than two entries, else the cleaned text; the
\* empty string when waiting for the body or reading it raised.
extract_104_dynamic_content(p) ==
    IF ~p.body_ok THEN EmptyContent
    ELSE LET lines      == StrippedLines(p.lines)
             fromH1     == TitleFromH1(p.h1)
             title      == IF NoTitle(fromH1) THEN InferTitle(lines) ELSE fromH1
             company    == FindCompany(lines)
             structured == StructuredInfo(title, company, lines)
             cleaned    == CleanScan(lines, 1, FALSE, <<>>)
         IN  IF Len(structured) > structured_threshold
             THEN [kind |-> "structured", text |-> Flatten(structured),
                   len |-> TextLen(Flatten(structured))]
             ELSE [kind |-> "cleaned", text |-> cleaned, len |-> TextLen(cleaned)]

(***************************************************************************)
(* The generic extractor of fetch_dynamic_content                          *)
(***************************************************************************)
\* re.sub(r'\s+', ' ', body_text).strip()[:1500]
generic_limit == 1500

\* len of the label put before the generic text, with its colon.
page_content_label_len == 5

generic_dynamic_content(p) ==
    LET collapsed == TextLen(StrippedLines(p.lines))
    IN  [kind |-> "generic", text |-> <<>>,
         len |-> page_content_label_len + Min(collapsed, generic_limit)]

(***************************************************************************)
(* Inputs of one request: the caller's query, the page the site serves.    *)
(***************************************************************************)
\* The longest title or heading of a static page, in characters.
MaxTitleLen == 600

\* The longest main text of a static page, in characters.
MaxTextLen == 1600

\* The size in bytes of a static page that is not oversized.
SmallBody == 4096

\* The most text lines a rendered page has.
MaxLines == 2

\* The characters of running text that follow the first one of a paragraph.
LongPad == 2500

u_http_localhost   == <<"h", "t", "t", "p", ":", "/", "/", "l", "o", "c", "a", "l", "h", "o", "s", "t", "/", "x">>
u_https_private    == <<"h", "t", "t", "p", "s", ":", "/", "/", "1", "9", "2", ".", "1", "6", "8", ".", "1", ".", "5", "/", "x">>
u_http_localhost_104 == <<"h", "t", "t", "p", ":", "/", "/", "l", "o", "c", "a", "l", "h", "o", "s", "t", "/", "1", "0", "4", ".", "c", "o", "m", ".", "t", "w">>
u_http_host        == <<"h", "t", "t", "p", ":", "/", "/", "h", "o", "s", "t", "/", "x">>
u_https_host       == <<"h", "t", "t", "p", "s", ":", "/", "/", "h", "o", "s", "t", "/", "x">>
u_https_104_job    == <<"h", "t", "t", "p", "s", ":", "/", "/", "w", "w", "w", ".", "1", "0", "4", ".", "c", "o", "m", ".", "t", "w", "/", "j", "o", "b", "/", "a", "b", "c", "1", "2", "3">>
u_https_host_104   == <<"h", "t", "t", "p", "s", ":", "/", "/", "h", "o", "s", "t", "/", "1", "0", "4", ".", "c", "o", "m", ".", "t", "w">>
u_https_104_cc     == <<"h", "t", "t", "p", "s", ":", "/", "/", "1", "0", "4", ".", "c", "o", "m", ".", "t", "w", ".", "c", "c", "/", "x">>

ReqUrls ==
    {u_http_localhost, u_https_private, u_http_localhost_104, u_http_host, u_https_host,
     u_https_104_job, u_https_host_104, u_https_104_cc}

\* Queries: a URL alone, a URL inside a sentence, and texts the URL
\* pattern does not match.
Queries ==
    ReqUrls
    \cup {<<"s", "e", "e", " ">> \o u \o <<" ", "p", "l", "s">> : u \in {u_http_localhost, u_https_host, u_https_104_job}}
    \cup {<<"d", "e", "v", " ", "j", "o", "b">>, <<"f", "t", "p", ":", "/", "/", "h", "o", "s", "t", "/", "x">>, <<"H", "T", "T", "P", ":", "/", "/", "h", "o", "s", "t", "/", "x">>, <<"s", "e", "e", " ", "h", "t", "t", "p", "s", ":", "/", "/", " ", "p", "l", "s">>}

\* URLs a caller passes to fetch_dynamic_content directly.
DirectUrls == {u_https_104_job, u_https_host}

StaticPages ==
    {p \in [kind : {"html"},
            title : {0, 1, MaxTitleLen},
            h1 : {0, 1, MaxTitleLen},
            h1_is_title : BOOLEAN,
            text : {0, 1, content_preview_limit, MaxTextLen},
            body : {0, SmallBody, max_size, max_size + 1, max_size + SmallBody},
            content_length : {-1, SmallBody, max_size, max_size + 1, max_size + SmallBody}] :
        /\ p.h1_is_title => (p.h1 = p.title /\ p.h1 > 0)
        /\ p.body = 0 => (p.title = 0 /\ p.h1 = 0 /\ p.text = 0 /\ p.content_length = -1)
        /\ p.body > 0 => p.content_length \in {-1, p.body}}

\* requests.get or raise_for_status raising.
StaticFailures == {"get_timeout", "get_error", "http_status"}

LineChoices ==
    {Text(m_job_content),
     Text(m_login),
     Text(m_reminder),
     [t |-> m_job_content, pad |-> LongPad],
     Text(<<"T">> \o m_limited),
     Text(<<" ", "a", "b">>),
     [t |-> <<"a">>, pad |-> LongPad]}

RECURSIVE SeqsUpTo(_, _)
\* The sequences over S of length n at most.
SeqsUpTo(S, n) ==
    IF n = 0 THEN {<<>>}
    ELSE LET shorter == SeqsUpTo(S, n - 1)
         IN  shorter \cup {Append(q, x) : q \in {r \in shorter : Len(r) = n - 1}, x \in S}

H1Choices == {Nothing, Text(<<"D", "e", "v">>)}

DynPages ==
    {[kind |-> "dom", body_ok |-> TRUE, h1 |-> h, lines |-> ls] :
        h \in H1Choices, ls \in SeqsUpTo(LineChoices, MaxLines)}
    \cup {[kind |-> "dom", body_ok |-> FALSE, h1 |-> Nothing, lines |-> <<>>]}

(***************************************************************************)
(* One request: analyze_job_detail, or fetch_dynamic_content on its own    *)
(***************************************************************************)
Init ==
    /\ entry \in {"analyze_job_detail", "fetch_dynamic_content"}
    /\ IF entry = "analyze_job_detail"
       THEN job_query \in Queries /\ url = None /\ pc = "start"
       ELSE job_query = <<>> /\ url \in DirectUrls /\ pc = "dyn_enter"
    /\ validated = "not_run" /\ strategy = "none" /\ httpGets = 0 /\ launches = 0
    /\ playwrightActive = FALSE /\ browserOpen = FALSE /\ contextOpen = FALSE
    /\ closeCalled = FALSE /\ page = Nothing /\ content = Nothing
    /\ webpage_content = Nothing /\ formatted_info = Nothing /\ llmCalls = 0
    /\ failure = "none"
    /\ IdleUrl /\ IdlePar /\ IdleSal /\ IdleMore

\* analyze_job_detail, "url = extract_url_from_query(job_query)" and "if url".
ExtractUrl ==
    /\ pc = "start"
    /\ url' = extract_url_from_query(job_query)
    /\ pc' = IF url' # None THEN "validate" ELSE "prepare"
    /\ UNCHANGED <<entry, job_query, validated, strategy, httpGets, launches,
                   playwrightActive, browserOpen, contextOpen, closeCalled, page,
                   content, webpage_content, formatted_info, llmCalls, failure>>
    /\ UNCHANGED <<urlVars, parVars, salVars, moreVars>>

\* fetch_webpage_content without its security check.
validation_skipped(u) == FALSE

\* "if not validate_url_security(url)" of fetch_webpage_content.
fails_validation(u) == ~validate_url_security(u).ret

\* fetch_webpage_content, the security check: a rejected URL returns None.
Validate ==
    /\ pc = "validate"
    /\ IF fails_validation(url)
       THEN validated' = "rejected" /\ webpage_content' = Nothing /\ pc' = "prepare"
       ELSE validated' = "accepted" /\ UNCHANGED webpage_content /\ pc' = "select"
    /\ UNCHANGED <<entry, job_query, url, strategy, httpGets, launches,
                   playwrightActive, browserOpen, contextOpen, closeCalled, page,
                   content, formatted_info, llmCalls, failure>>
    /\ UNCHANGED <<urlVars, parVars, salVars, moreVars>>

\* fetch_webpage_content, "if is_dynamic_website(url)".
SelectStrategy ==
    /\ pc = "select"
    /\ IF is_dynamic_website(url)
       THEN strategy' = "dynamic" /\ pc' = "dyn_enter"
       ELSE strategy' = "static" /\ pc' = "static_get"
    /\ UNCHANGED <<entry, job_query, url, validated, httpGets, launches,
                   playwrightActive, browserOpen, contextOpen, closeCalled, page,
                   content, webpage_content, formatted_info, llmCalls, failure>>
    /\ UNCHANGED <<urlVars, parVars, salVars, moreVars>>

\* fetch_static_content, requests.get and raise_for_status: a response, or
\* an exception that the function turns into None.
StaticGet ==
    /\ pc = "static_get"
    /\ httpGets' = httpGets + 1
    /\ \/ \E p \in StaticPages :
            /\ page' = p
            /\ pc' = "static_read"
            /\ UNCHANGED <<failure, webpage_content>>
       \/ \E f \in StaticFailures :
            /\ failure' = f
            /\ webpage_content' = Nothing
            /\ pc' = "prepare"
            /\ UNCHANGED page
    /\ UNCHANGED <<entry, job_query, url, validated, strategy, launches,
                   playwrightActive, browserOpen, contextOpen, closeCalled,
                   content, formatted_info, llmCalls>>
    /\ UNCHANGED <<urlVars, parVars, salVars, moreVars>>

\* fetch_static_content from the Content-Length test to its return.
StaticRead ==
    /\ pc = "static_read"
    /\ webpage_content' = static_after_get(page)
    /\ pc' = "prepare"
    /\ UNCHANGED <<entry, job_query, url, validated, strategy, httpGets, launches,
                   playwrightActive, browserOpen, contextOpen, closeCalled, page,
                   content, formatted_info, llmCalls, failure>>
    /\ UNCHANGED <<urlVars, parVars, salVars, moreVars>>

\* A Playwright block whose exit leaves the browsers alone.
open_after_exit_left_alone(open) == open

\* What leaving the "async with async_playwright()" block does to a browser
\* that is still open: the block's exit stops the Playwright driver, and
\* the driver closes the browsers it launched before it ends.
open_after_playwright_exit(open) == FALSE

\* "is_104 = '104.com.tw' in url"
is_104(u) == Contains(u, s_104)

\* "if not content" of fetch_dynamic_content, and "if webpage_content" of
\* analyze_job_detail: None and the empty string are false.
Truthy(c) == c # Nothing /\ c.len > 0

\* The await points of fetch_dynamic_content inside the Playwright block.
DynAwaits == {"dyn_launch", "dyn_context", "dyn_goto", "dyn_extract", "dyn_close"}

reqFrame == <<entry, job_query, url, validated, strategy, httpGets>>

\* fetch_dynamic_content, "async with async_playwright() as p".
DynEnter ==
    /\ pc = "dyn_enter"
    /\ playwrightActive' = TRUE
    /\ pc' = "dyn_launch"
    /\ UNCHANGED <<reqFrame, launches, browserOpen, contextOpen, closeCalled, page,
                   content, webpage_content, formatted_info, llmCalls, failure>>
    /\ UNCHANGED <<urlVars, parVars, salVars, moreVars>>

\* "browser = await p.chromium.launch(headless=True)", or its exception.
DynLaunch ==
    /\ pc = "dyn_launch"
    /\ \/ /\ browserOpen' = TRUE
          /\ launches' = launches + 1
          /\ pc' = "dyn_context"
          /\ UNCHANGED failure
       \/ /\ failure' = "launch_error"
          /\ pc' = "dyn_exit"
          /\ UNCHANGED <<browserOpen, launches>>
    /\ UNCHANGED <<reqFrame, playwrightActive, contextOpen, closeCalled, page,
                   content, webpage_content, formatted_info, llmCalls>>
    /\ UNCHANGED <<urlVars, parVars, salVars, moreVars>>

\* "context = await browser.new_context(...)", the route and the new page,
\* or an exception of one of them.
DynNewContext ==
    /\ pc = "dyn_context"
    /\ \/ /\ contextOpen' = TRUE
          /\ pc' = "dyn_goto"
          /\ UNCHANGED failure
       \/ /\ failure' = "context_error"
          /\ pc' = "dyn_exit"
          /\ UNCHANGED contextOpen
    /\ UNCHANGED <<reqFrame, launches, playwrightActive, browserOpen, closeCalled,
                   page, content, webpage_content, formatted_info, llmCalls>>
    /\ UNCHANGED <<urlVars, parVars, salVars, moreVars>>

\* "await page.goto(url, wait_until='domcontentloaded', timeout=30000)":
\* the page loads, the navigation times out, or it fails otherwise.
DynGoto ==
    /\ pc = "dyn_goto"
    /\ \/ \E p \in DynPages :
            /\ page' = p
            /\ pc' = "dyn_extract"
            /\ UNCHANGED failure
       \/ \E f \in {"nav_timeout", "nav_error"} :
            /\ failure' = f
            /\ pc' = "dyn_exit"
            /\ UNCHANGED page
    /\ UNCHANGED <<reqFrame, launches, playwrightActive, browserOpen, contextOpen,
                   closeCalled, content, webpage_content, formatted_info, llmCalls>>
    /\ UNCHANGED <<urlVars, parVars, salVars, moreVars>>

\* The extractor: the job board's own, which catches its exceptions, or
\* the generic one, whose exceptions leave the try block.
DynExtract ==
    /\ pc = "dyn_extract"
    /\ IF is_104(url)
       THEN /\ content' = extract_104_dynamic_content(page)
            /\ pc' = "dyn_close"
            /\ UNCHANGED failure
       ELSE IF page.body_ok
       THEN /\ content' = generic_dynamic_content(page)
            /\ pc' = "dyn_close"
            /\ UNCHANGED failure
       ELSE /\ failure' = "extract_error"
            /\ pc' = "dyn_exit"
            /\ UNCHANGED content
    /\ UNCHANGED <<reqFrame, launches, playwrightActive, browserOpen, contextOpen,
                   closeCalled, page, webpage_content, formatted_info, llmCalls>>
    /\ UNCHANGED <<urlVars, parVars, salVars, moreVars>>

\* "await browser.close()", followed by the return statements, which leave
\* the Playwright block.
DynClose ==
    /\ pc = "dyn_close"
    /\ browserOpen' = FALSE
    /\ contextOpen' = FALSE
    /\ closeCalled' = TRUE
    /\ pc' = "dyn_exit"
    /\ UNCHANGED <<reqFrame, launches, playwrightActive, page, content,
                   webpage_content, formatted_info, llmCalls, failure>>
    /\ UNCHANGED <<urlVars, parVars, salVars, moreVars>>

\* The host cancels the task while it waits inside the Playwright block:
\* CancelledError is raised at the await.
Cancel ==
    /\ pc \in DynAwaits
    /\ failure' = "cancelled"
    /\ pc' = "dyn_exit"
    /\ UNCHANGED <<reqFrame, launches, playwrightActive, browserOpen, contextOpen,
                   closeCalled, page, content, webpage_content, formatted_info, llmCalls>>
    /\ UNCHANGED <<urlVars, parVars, salVars, moreVars>>

\* The exit of the Playwright block, then what fetch_dynamic_content does
\* with the pending return or exception: "except Exception" returns None,
\* a cancellation is no Exception and goes on to the caller.
DynExit ==
    /\ pc = "dyn_exit"
    /\ playwrightActive' = FALSE
    /\ browserOpen' = open_after_playwright_exit(browserOpen)
    /\ contextOpen' = open_after_playwright_exit(contextOpen)
    /\ webpage_content' = IF failure = "none" /\ Truthy(content) THEN content ELSE Nothing
    /\ pc' = IF failure = "cancelled" THEN "cancelled"
             ELSE IF entry = "fetch_dynamic_content" THEN "returned"
             ELSE "prepare"
    /\ UNCHANGED <<reqFrame, launches, closeCalled, page, content, formatted_info,
                   llmCalls, failure>>
    /\ UNCHANGED <<urlVars, parVars, salVars, moreVars>>

\* formatted_info that ignores the extracted content.
FormattedInfoAlwaysBare(query, extracted) == [kind |-> "bare", query |-> query]

\* formatted_info of analyze_job_detail: the query with the extracted
\* content as context, or the query alone.
FormattedInfo(query, extracted) ==
    IF Truthy(extracted)
    THEN [kind |-> "with_context", query |-> query, context |-> extracted]
    ELSE [kind |-> "bare", query |-> query]

\* analyze_job_detail from "if webpage_content" to its return: the prompt
\* is built and call_llm is called once; call_llm may raise.
CallLLM ==
    /\ pc = "prepare"
    /\ formatted_info' = FormattedInfo(job_query, webpage_content)
    /\ llmCalls' = llmCalls + 1
    /\ \/ pc' = "done" /\ UNCHANGED failure
       \/ pc' = "llm_failed" /\ failure' = "llm_error"
    /\ UNCHANGED <<reqFrame, launches, playwrightActive, browserOpen, contextOpen,
                   closeCalled, page, content, webpage_content>>
    /\ UNCHANGED <<urlVars, parVars, salVars, moreVars>>

Next ==
    \/ ExtractUrl
    \/ Validate
    \/ SelectStrategy
    \/ StaticGet
    \/ StaticRead
    \/ DynEnter
    \/ DynLaunch
    \/ DynNewContext
    \/ DynGoto
    \/ DynExtract
    \/ DynClose
    \/ Cancel
    \/ DynExit
    \/ CallLLM

Spec == Init /\ [][Next]_vars

(***************************************************************************)
(* C1                                                                      *)
(***************************************************************************)
\* The URLs the specification names.
ex_http_localhost == <<"h", "t", "t", "p", ":", "/", "/", "l", "o", "c", "a", "l", "h", "o", "s", "t", "/", "x">>
ex_https_loopback == <<"h", "t", "t", "p", "s", ":", "/", "/", "1", "2", "7", ".", "0", ".", "0", ".", "1", "/", "x">>
ex_http_private   == <<"h", "t", "t", "p", ":", "/", "/", "1", "9", "2", ".", "1", "6", "8", ".", "1", ".", "5", "/", "x">>
ex_ftp_host       == <<"f", "t", "p", ":", "/", "/", "h", "o", "s", "t", "/", "x">>
ex_https_104_job  == <<"h", "t", "t", "p", "s", ":", "/", "/", "w", "w", "w", ".", "1", "0", "4", ".", "c", "o", "m", ".", "t", "w", "/", "j", "o", "b", "/", "a", "b", "c", "1", "2", "3">>

\* What the claim says of a URL written from the components p: its scheme
\* is http or https, it has a non-empty hostname, the lower-cased hostname
\* is none of localhost / 127.0.0.1 / 0.0.0.0 and does not begin with
\* "10.", "172." or "192.168.". A URL whose bracket is not closed does not
\* parse and so has no hostname.
ClaimedSafe(p) ==
    /\ Lower(p.scheme) \in {s_http, s_https}
    /\ p.host.form # "unclosed"
    /\ p.host.name # <<>>
    /\ Lower(p.host.name) \notin {s_localhost, s_loopback, s_anyaddr}
    /\ ~StartsWith(Lower(p.host.name), s_10)
    /\ ~StartsWith(Lower(p.host.name), s_172)
    /\ ~StartsWith(Lower(p.host.name), s_192_168)

\* C1: validate_url_security never raises and returns true exactly when the
\* URL's scheme is http or https, its hostname is non-empty, is not
\* localhost / 127.0.0.1 / 0.0.0.0 and does not begin with a private-range
\* prefix; the four URLs the specification rejects are rejected and
\* https://www.104.com.tw/job/abc123 is accepted.
C1_ValidateExactly ==
    /\ vpc # "raised"
    /\ vpc = "returned" => (vresult <=> ClaimedSafe(vparts))
    /\ vpc = "returned" /\ vurl \in {ex_http_localhost, ex_https_loopback,
                                      ex_http_private, ex_ftp_host} => ~vresult
    /\ vpc = "returned" /\ vurl = ex_https_104_job => vresult

\* A call on the accepted URL of the specification has returned true.
C1_Witness ==
    vpc = "returned" /\ vurl = ex_https_104_job /\ vresult

(***************************************************************************)
(* C2                                                                      *)
(***************************************************************************)
AfterFetch == {"prepare", "done", "llm_failed"}

\* C2: in a request of analyze_job_detail, validation comes before the
\* strategy selection and the fetch: a GET is issued, a browser launched
\* or a strategy chosen only for a URL validate_url_security accepts; for
\* a URL it rejects there is no GET and no browser, the result is None and
\* the request goes on to its LLM call.
C2_RejectionBeforeFetch ==
    entry = "analyze_job_detail" =>
        /\ (httpGets > 0 \/ launches > 0 \/ strategy # "none" \/ playwrightActive)
               => (url # None /\ validate_url_security(url).ret /\ validated = "accepted")
        /\ (url # None /\ ~validate_url_security(url).ret /\ pc # "validate")
               => /\ validated = "rejected"
                  /\ httpGets = 0 /\ launches = 0 /\ strategy = "none"
                  /\ webpage_content = Nothing
                  /\ pc \in AfterFetch

\* A request whose URL was rejected has completed: no GET, no browser, one
\* LLM call.
C2_Witness ==
    /\ entry = "analyze_job_detail" /\ url = u_http_localhost
    /\ validated = "rejected" /\ pc = "done"
    /\ httpGets = 0 /\ launches = 0 /\ llmCalls = 1

(***************************************************************************)
(* C3                                                                      *)
(***************************************************************************)
EndsWith(s, suffix) ==
    /\ Len(suffix) <= Len(s)
    /\ SubSeq(s, Len(s) - Len(suffix) + 1, Len(s)) = suffix

\* The host of the URL is an allow-listed domain or a subdomain of one.
HostOnAllowList(u) ==
    \E domain \in dynamic_domains :
        \/ Hostname(u) = domain
        \/ EndsWith(Hostname(u), <<".">> \o domain)

\* C3: for every validated URL the dynamic strategy is chosen if and only
\* if the URL's host is on the allow-list of JavaScript-rendered domains;
\* the domain's text elsewhere in the URL does not select it.
C3_DynamicIffHostAllowListed ==
    (entry = "analyze_job_detail" /\ strategy # "none") =>
        (strategy = "dynamic" <=> HostOnAllowList(url))

(***************************************************************************)
(* C4                                                                      *)
(***************************************************************************)
\* The positions at which fetch_dynamic_content has returned or its
\* cancellation has gone on to the caller.
AfterDynamic == {"prepare", "done", "llm_failed", "returned", "cancelled"}

LargestCeiling == static_limit + ellipsis_len

\* C5: the content handed to the LLM prompt has a length of at most a fixed
\* ceiling, for every strategy and extractor and for pages of any length.
C5_ContentBounded ==
    entry = "analyze_job_detail" =>
        /\ Truthy(webpage_content) => webpage_content.len <= LargestCeiling
        /\ (formatted_info # Nothing /\ formatted_info.kind = "with_context")
               => formatted_info.context.len <= LargestCeiling

C7_OversizedBodyGivesNone ==
    (strategy = "static" /\ pc \in AfterFetch /\ page # Nothing /\ page.body > max_size)
        => webpage_content = Nothing

(***************************************************************************)
(* C8                                                                      *)
(***************************************************************************)
\* The failures of the extraction: everything but a cancellation by the
\* host and a failure of the LLM call.
ExtractionFailures ==
    StaticFailures \cup {"launch_error", "context_error", "nav_timeout", "nav_error",
                         "extract_error"}

\* C8: analyze_job_detail calls the LLM exactly once, after the fetch
\* attempt if there is one; the job information is the bare query exactly
\* when the extraction produced no content, and the query with the
\* extracted content as context otherwise; an extraction failure leads to
\* the LLM call, not out of the analysis.
C8_OneLLMCallAfterFetch ==
    entry = "analyze_job_detail" =>
        /\ llmCalls = (IF pc \in {"done", "llm_failed"} THEN 1 ELSE 0)
        /\ pc \in {"done", "llm_failed"} =>
              /\ formatted_info.query = job_query
              /\ formatted_info.kind = "bare" <=> webpage_content = Nothing
              /\ formatted_info.kind = "with_context" =>
                     formatted_info.context = webpage_content
        /\ failure \in ExtractionFailures =>
              /\ pc \in {"dyn_exit", "prepare", "done"}
              /\ pc \in {"prepare", "done"} => webpage_content = Nothing

\* The navigation timed out and the analysis completed with one LLM call
\* on the bare query.
C8_Witness ==
    /\ entry = "analyze_job_detail" /\ failure = "nav_timeout" /\ pc = "done"
    /\ llmCalls = 1 /\ formatted_info = [kind |-> "bare", query |-> job_query]

(***************************************************************************)
(* Values of the LLM's loosely typed dictionary, tagged with their Python  *)
(* type. A dictionary is a function from its keys to such values.          *)
(***************************************************************************)
VNull == [t |-> "null"]
VStr(s) == [t |-> "str", v |-> s]
VNum(n) == [t |-> "num", v |-> n]
VList(xs) == [t |-> "list", v |-> xs]

\* An optional integer: Nothing for None.
Some(n) == [int |-> n]

EmptyDict == [k \in {} |-> VNull]

\* The dictionary d with d[key] = value.
Put(d, key, value) ==
    [k \in DOMAIN d \cup {key} |-> IF k = key THEN value ELSE d[k]]

\* bool(v)
IsTruthy(v) ==
    CASE v.t = "null" -> FALSE
      [] v.t = "str"  -> v.v # <<>>
      [] v.t = "num"  -> v.v # 0
      [] v.t = "list" -> v.v # <<>>
      [] v.t = "bool" -> v.v
      [] v.t = "dict" -> DOMAIN v.v # {}

\* hash(v) raises TypeError for a list.
Unhashable(v) == v.t = "list"

\* "for x in v": the items, or TypeError for a value that is no iterable.
\* A string iterates over its characters.
Iterate(v) ==
    CASE v.t = "list" -> [exc |-> FALSE, items |-> v.v]
      [] v.t = "str"  -> [exc |-> FALSE,
                          items |-> [i \in 1..Len(v.v) |-> VStr(<<v.v[i]>>)]]
      [] OTHER        -> [exc |-> TRUE, items |-> <<>>]

(***************************************************************************)
(* The facet maps, with the entries the docstrings of llm/tools.py give.   *)
(***************************************************************************)
l_taipei     == <<"u53f0", "u5317", "u5e02">>
l_new_taipei == <<"u65b0", "u5317", "u5e02">>
l_software   == <<"u8edf", "u9ad4", "uff0f", "u5de5", "u7a0b", "u985e", "u4eba", "u54e1">>
l_university == <<"u5927", "u5b78">>
l_relevance  == <<"u7b26", "u5408", "u5ea6">>
l_unknown    == <<"u706b", "u661f">>

c_taipei     == <<"6", "0", "0", "1", "0", "0", "1", "0", "0", "0">>
c_new_taipei == <<"6", "0", "0", "1", "0", "0", "2", "0", "0", "0">>
c_software   == <<"2", "0", "0", "7", "0", "0", "1", "0", "0", "0">>

AREA_MAP == (l_taipei :> c_taipei) @@ (l_new_taipei :> c_new_taipei)

JOB_TYPE_MAP == (l_software :> c_software)

EDUCATION_MAP == (l_university :> <<"4">>)

SORT_BY_MAP == (l_relevance :> <<"1">>)

\* "label in MAP" and MAP[label] for a hashable value.
InMap(map, v) == v.t = "str" /\ v.v \in DOMAIN map

\* The loop of convert_areas_to_codes and convert_job_categories_to_codes
\* over the items from the one numbered i on: the codes of the labels the
\* map holds, in order; TypeError at an item that cannot be hashed.
RECURSIVE CodesFrom(_, _, _)
CodesFrom(map, items, i) ==
    IF i > Len(items) THEN [exc |-> FALSE, val |-> <<>>]
    ELSE IF Unhashable(items[i]) THEN [exc |-> TRUE, val |-> <<>>]
    ELSE LET rest == CodesFrom(map, items, i + 1)
         IN  IF rest.exc THEN rest
             ELSE IF InMap(map, items[i])
             THEN [exc |-> FALSE, val |-> <<map[items[i].v]>> \o rest.val]
             ELSE rest

list_to_codes(map, v) ==
    LET it == Iterate(v)
    IN  IF it.exc THEN [exc |-> TRUE, val |-> <<>>] ELSE CodesFrom(map, it.items, 1)

convert_areas_to_codes(areas) == list_to_codes(AREA_MAP, areas)

convert_job_categories_to_codes(categories) == list_to_codes(JOB_TYPE_MAP, categories)

\* A lookup that gives a label the map does not hold the code "0".
label_to_code_coerced(map, v) ==
    IF Unhashable(v) THEN [exc |-> TRUE, val |-> Nothing]
    ELSE IF InMap(map, v) THEN [exc |-> FALSE, val |-> [code |-> map[v.v]]]
    ELSE [exc |-> FALSE, val |-> [code |-> <<"0">>]]

\* convert_education_to_code and convert_sort_by_to_code: the code, None
\* for a label the map does not hold, TypeError for a value that cannot be
\* hashed.
label_to_code(map, v) ==
    IF Unhashable(v) THEN [exc |-> TRUE, val |-> Nothing]
    ELSE IF InMap(map, v) THEN [exc |-> FALSE, val |-> [code |-> map[v.v]]]
    ELSE [exc |-> FALSE, val |-> Nothing]

convert_education_to_code(education) == label_to_code(EDUCATION_MAP, education)

convert_sort_by_to_code(sort_by) == label_to_code(SORT_BY_MAP, sort_by)

(***************************************************************************)
(* parse_salary_range                                                      *)
(***************************************************************************)
DigitValue ==
    [c \in Digits |->
        CASE c = "0" -> 0 [] c = "1" -> 1 [] c = "2" -> 2 [] c = "3" -> 3 [] c = "4" -> 4
          [] c = "5" -> 5 [] c = "6" -> 6 [] c = "7" -> 7 [] c = "8" -> 8 [] c = "9" -> 9]

RECURSIVE DigitsValue(_)
\* The number a non-empty string of digits denotes.
DigitsValue(ds) ==
    IF Len(ds) = 1 THEN DigitValue[ds[1]]
    ELSE 10 * DigitsValue(SubSeq(ds, 1, Len(ds) - 1)) + DigitValue[ds[Len(ds)]]

\* The digits of a literal, with single underscores allowed between them.
IsIntLiteral(ds) ==
    /\ ds # <<>>
    /\ ds[1] \in Digits /\ ds[Len(ds)] \in Digits
    /\ \A i \in 1..Len(ds) : ds[i] \in Digits \cup {"_"}
    /\ \A i \in 1..(Len(ds) - 1) : ~(ds[i] = "_" /\ ds[i + 1] = "_")

\* int(s): whitespace around the number is ignored, a sign is allowed;
\* ValueError for anything else.
ParseInt(s) ==
    LET body   == Strip(s)
        signed == body # <<>> /\ body[1] \in {"+", "-"}
        ds     == IF signed THEN Tail(body) ELSE body
        n      == DigitsValue(SelectSeq(ds, LAMBDA c : c \in Digits))
    IN  IF IsIntLiteral(ds)
        THEN [exc |-> FALSE, val |-> IF signed /\ body[1] = "-" THEN 0 - n ELSE n]
        ELSE [exc |-> TRUE, val |-> 0]

RECURSIVE Split(_, _)
\* s.split(c) for a one-character separator.
Split(s, c) ==
    LET i == Find(s, c, 0)
    IN  IF i < 0 THEN <<s>>
        ELSE <<Slice(s, 0, i)>> \o Split(Slice(s, i + 1, Len(s)), c)

\* One bound whose int() is not guarded: the ValueError leaves the function.
bound_of_segment_unguarded(segment) ==
    IF Strip(segment) = <<>> THEN [exc |-> FALSE, val |-> Nothing]
    ELSE LET n == ParseInt(Strip(segment))
         IN  IF n.exc THEN [exc |-> TRUE, val |-> Nothing]
             ELSE [exc |-> FALSE, val |-> Some(n.val)]

\* One bound: "if seg.strip(): try: int(seg.strip()) except ValueError: pass".
bound_of_segment(segment) ==
    IF Strip(segment) = <<>> THEN [exc |-> FALSE, val |-> Nothing]
    ELSE LET n == ParseInt(Strip(segment))
         IN  IF n.exc THEN [exc |-> FALSE, val |-> Nothing]
             ELSE [exc |-> FALSE, val |-> Some(n.val)]

NoBounds == [salary_min |-> Nothing, salary_max |-> Nothing]

\* '"-" not in salary_range': a substring test on a string, a membership
\* test on a list, TypeError on a number.
DashTest(v) ==
    CASE v.t = "str"  -> [exc |-> FALSE, val |-> Contains(v.v, <<"-">>)]
      [] v.t = "list" -> [exc |-> FALSE,
                          val |-> \E i \in 1..Len(v.v) : v.v[i] = VStr(<<"-">>)]
      [] OTHER        -> [exc |-> TRUE, val |-> FALSE]

\* parse_salary_range(v): the dictionary returned, or the exception.
parse_salary_range(v) ==
    IF ~IsTruthy(v) THEN [exc |-> FALSE, val |-> NoBounds]
    ELSE LET dash == DashTest(v)
         IN  IF dash.exc THEN [exc |-> TRUE, val |-> NoBounds]
             ELSE IF ~dash.val THEN [exc |-> FALSE, val |-> NoBounds]
             ELSE IF v.t # "str" THEN [exc |-> TRUE, val |-> NoBounds]
             ELSE LET parts == Split(v.v, "-")
                  IN  IF Len(parts) # 2 THEN [exc |-> FALSE, val |-> NoBounds]
                      ELSE LET lo == bound_of_segment(parts[1])
                               hi == bound_of_segment(parts[2])
                           IN  [exc |-> lo.exc \/ hi.exc,
                                val |-> [salary_min |-> lo.val, salary_max |-> hi.val]]

(***************************************************************************)
(* convert_tool_params_to_search_params                                    *)
(***************************************************************************)
\* One step of the function: the dictionary built so far, or the exception
\* that left the function.
Go(d) == [exc |-> FALSE, val |-> d]
Raised == [exc |-> TRUE, val |-> EmptyDict]

StepCopy(st, tp, key) ==
    IF st.exc \/ key \notin DOMAIN tp THEN st ELSE Go(Put(st.val, key, tp[key]))

StepCodes(st, tp, key, map) ==
    IF st.exc \/ key \notin DOMAIN tp THEN st
    ELSE LET codes == list_to_codes(map, tp[key])
         IN  IF codes.exc THEN Raised
             ELSE IF codes.val # <<>> THEN Go(Put(st.val, key, codes.val))
             ELSE st

StepCode(st, tp, key, map) ==
    IF st.exc \/ key \notin DOMAIN tp THEN st
    ELSE LET code == label_to_code(map, tp[key])
         IN  IF code.exc THEN Raised
             ELSE IF code.val # Nothing /\ code.val.code # <<>>
                  THEN Go(Put(st.val, key, code.val.code))
             ELSE st

StepSalary(st, tp) ==
    IF st.exc \/ "salary_range" \notin DOMAIN tp THEN st
    ELSE LET info == parse_salary_range(tp["salary_range"])
         IN  IF info.exc THEN Raised
             ELSE LET a == IF info.val.salary_min # Nothing
                           THEN Put(st.val, "salary_min", info.val.salary_min.int)
                           ELSE st.val
                      b == IF info.val.salary_max # Nothing
                           THEN Put(a, "salary_max", info.val.salary_max.int)
                           ELSE a
                  IN  Go(b)

\* The statements of convert_tool_params_to_search_params, in order.
convert_tool_params_to_search_params(tp) ==
    LET s1 == StepCopy(Go(EmptyDict), tp, "keyword")
        s2 == StepCopy(s1, tp, "posted_within_days")
        s3 == StepCodes(s2, tp, "area", AREA_MAP)
        s4 == StepCodes(s3, tp, "job_category", JOB_TYPE_MAP)
        s5 == StepCode(s4, tp, "education", EDUCATION_MAP)
        s6 == StepCode(s5, tp, "sort_by", SORT_BY_MAP)
    IN  StepSalary(s6, tp)

(***************************************************************************)
(* The dictionaries convert_tool_params_to_search_params is called with:   *)
(* for each key of the tool schema, the key is absent or holds one of the  *)
(* values below.                                                           *)
(***************************************************************************)
Absent == [t |-> "absent"]

s_python == <<"p", "y">>
s_dash   == <<"-">>
s_40000_60000 == <<"4", "0", "0", "0", "0", "-", "6", "0", "0", "0", "0">>
s_abc_60000   == <<"a", "b", "c", "-", "6", "0", "0", "0", "0">>

KeywordValues == {Absent, VStr(s_python)}

PostedWithinDaysValues == {Absent, VNum(7)}

AreaValues ==
    {Absent, VNull, VNum(3), VStr(l_taipei), VList(<<>>),
     VList(<<VStr(l_taipei)>>),
     VList(<<VStr(l_taipei), VStr(l_unknown), VStr(l_new_taipei)>>),
     VList(<<VList(<<VStr(l_taipei)>>)>>)}

JobCategoryValues == {Absent, VNull, VList(<<VStr(l_software)>>)}

EducationValues ==
    {Absent, VNull, VNum(4), VStr(l_university), VStr(l_unknown),
     VList(<<VStr(l_university)>>)}

SortByValues == {Absent, VStr(l_relevance), VList(<<VStr(l_relevance)>>)}

SalaryRangeValues ==
    {Absent, VNull, VNum(0), VNum(40000), VStr(<<>>), VStr(s_40000_60000),
     VStr(s_abc_60000), VList(<<VStr(s_40000_60000)>>), VList(<<VStr(s_dash)>>)}

ToolKeys ==
    {"keyword", "posted_within_days", "area", "job_category", "education",
     "sort_by", "salary_range"}

\* The dictionary holding the keys of the choice c that are not absent.
DictOf(c) == [k \in {key \in ToolKeys : c[key] # Absent} |-> c[k]]

ToolParams ==
    {DictOf(c) : c \in [keyword : KeywordValues,
                        posted_within_days : PostedWithinDaysValues,
                        area : AreaValues,
                        job_category : JobCategoryValues,
                        education : EducationValues,
                        sort_by : SortByValues,
                        salary_range : SalaryRangeValues]}

InitParams ==
    /\ tool_params \in ToolParams
    /\ ppc = "call"
    /\ search_params = Nothing
    /\ IdleReq /\ IdleUrl /\ IdleSal /\ IdleMore

\* The call convert_tool_params_to_search_params(tool_params): it returns
\* search_params or an exception leaves it.
ConvertCall ==
    /\ ppc = "call"
    /\ LET r == convert_tool_params_to_search_params(tool_params)
       IN  /\ ppc' = IF r.exc THEN "raised" ELSE "returned"
           /\ search_params' = IF r.exc THEN Nothing ELSE r.val
    /\ UNCHANGED <<tool_params, reqVars, urlVars, salVars, moreVars>>

NextParams == ConvertCall

SpecParams == InitParams /\ [][NextParams]_vars

(***************************************************************************)
(* C9  Parameter resolution is total: for every loosely typed dictionary   *)
(* (any subset of the keys; null values, a bare string for a list, a       *)
(* number or a list for a string, unknown labels, a malformed              *)
(* salary_range) convert_tool_params_to_search_params returns a mapping    *)
(* and never raises.                                                       *)
(***************************************************************************)
C9_ResolutionNeverRaises == ppc # "raised"

(***************************************************************************)
(* The strings parse_salary_range is called with, written from their       *)
(* parts: an empty string, a string without a dash, or two segments around *)
(* one dash. A segment is absent, a number (bare or with spaces around it) *)
(* or text that is no number.                                              *)
(***************************************************************************)
MaxSalary == 99999

RECURSIVE ToDigits(_)
\* str(n) for a natural number n.
ToDigits(n) ==
    LET d == CHOOSE c \in Digits : DigitValue[c] = n % 10
    IN  IF n < 10 THEN <<d>> ELSE ToDigits(n \div 10) \o <<d>>

SalaryNumbers == {0, 7, 40000, 60000, MaxSalary}

s_abc  == <<"a", "b", "c">>
s_4a   == <<"4", "a">>
s_4_0  == <<"4", " ", "0">>

JunkSegments == {s_abc, s_4a, s_4_0}

Segments ==
    {[k |-> "absent", n |-> 0, s |-> <<>>, spaced |-> FALSE]}
    \cup [k : {"num"}, n : SalaryNumbers, s : {<<>>}, spaced : BOOLEAN]
    \cup [k : {"junk"}, n : {0}, s : JunkSegments, spaced : {FALSE}]

NoSegment == [k |-> "absent", n |-> 0, s |-> <<>>, spaced |-> FALSE]

WriteSegment(g) ==
    CASE g.k = "absent" -> <<>>
      [] g.k = "num"    -> IF g.spaced THEN <<" ">> \o ToDigits(g.n) \o <<" ">>
                           ELSE ToDigits(g.n)
      [] g.k = "junk"   -> g.s

SalaryParts ==
    [form : {"range"}, min : Segments, max : Segments]
    \cup [form : {"single"}, min : Segments, max : {NoSegment}]

\* The salary_range string of the parts p; the empty string is the single
\* absent segment.
WriteSalary(p) ==
    IF p.form = "range" THEN WriteSegment(p.min) \o <<"-">> \o WriteSegment(p.max)
    ELSE WriteSegment(p.min)

InitSalary ==
    /\ \E p \in SalaryParts : salary_range = [parts |-> p, text |-> WriteSalary(p)]
    /\ spc = "call"
    /\ salary_info = Nothing
    /\ IdleReq /\ IdleUrl /\ IdlePar /\ IdleMore

\* The call parse_salary_range(salary_range) and its return.
ParseCall ==
    /\ spc = "call"
    /\ LET r == parse_salary_range(VStr(salary_range.text))
       IN  /\ spc' = IF r.exc THEN "raised" ELSE "returned"
           /\ salary_info' = IF r.exc THEN Nothing ELSE r.val
    /\ UNCHANGED <<salary_range, reqVars, urlVars, parVars, moreVars>>

NextSalary == ParseCall

SpecSalary == InitSalary /\ [][NextSalary]_vars

(***************************************************************************)
(* C10  parse_salary_range maps every string of the form 'min-max',        *)
(* 'min-', '-max' or empty to the documented pair, with None for each      *)
(* absent bound and for a segment that is no number, and does not raise:   *)
(* '40000-60000' gives (40000, 60000), '40000-' gives (40000, None),       *)
(* '-60000' gives (None, 60000), 'abc-60000' gives (None, 60000) and ''    *)
(* gives (None, None).                                                     *)
(***************************************************************************)
s_40000_  == <<"4", "0", "0", "0", "0", "-">>
s__60000  == <<"-", "6", "0", "0", "0", "0">>

\* The bound the documentation gives for a segment.
DocumentedBound(g) == IF g.k = "num" THEN Some(g.n) ELSE Nothing

DocumentedPair(p) ==
    [salary_min |-> DocumentedBound(p.min), salary_max |-> DocumentedBound(p.max)]

\* The strings the documentation covers: two segments around one dash, and
\* the empty string.
IsDocumentedForm(p) == p.form = "range" \/ WriteSalary(p) = <<>>

Pair(lo, hi) == [salary_min |-> lo, salary_max |-> hi]

\* C10: parse_salary_range does not raise; for two segments around one
\* dash and for the empty string it returns the documented pair, None for
\* an absent bound and for a segment that is no number; the five documented
\* examples give their documented pairs.
C10_DocumentedPairs ==
    /\ spc # "raised"
    /\ (spc = "returned" /\ IsDocumentedForm(salary_range.parts))
          => salary_info = DocumentedPair(salary_range.parts)
    /\ spc = "returned" =>
          /\ salary_range.text = s_40000_60000 => salary_info = Pair(Some(40000), Some(60000))
          /\ salary_range.text = s_40000_ => salary_info = Pair(Some(40000), Nothing)
          /\ salary_range.text = s__60000 => salary_info = Pair(Nothing, Some(60000))
          /\ salary_range.text = s_abc_60000 => salary_info = Pair(Nothing, Some(60000))
          /\ salary_range.text = <<>> => salary_info = Pair(Nothing, Nothing)

C10_Witness ==
    /\ spc = "returned"
    /\ salary_range.text = s_abc_60000
    /\ salary_info = Pair(Nothing, Some(60000))


(***************************************************************************)
(* C11                                                                     *)
(***************************************************************************)
\* A label its facet's map does not hold: a value that can be hashed and is
\* no key of the map.
IsUnmappedLabel(map, v) == ~Unhashable(v) /\ ~InMap(map, v)

\* The value of a list facet with its unmapped labels removed; a value that
\* is no list is left as it is.
WithoutUnmappedItems(map, v) ==
    IF v.t = "list"
    THEN VList(SelectSeq(v.v, LAMBDA item : ~IsUnmappedLabel(map, item)))
    ELSE v

ListFacets == ("area" :> AREA_MAP) @@ ("job_category" :> JOB_TYPE_MAP)

LabelFacets == ("education" :> EDUCATION_MAP) @@ ("sort_by" :> SORT_BY_MAP)

\* The dictionary tp with every unmapped label removed: from the lists of
\* area and job_category, and the keys education and sort_by when their
\* value is an unmapped label.
WithoutUnmappedLabels(tp) ==
    [k \in {key \in DOMAIN tp :
               ~(key \in DOMAIN LabelFacets /\ IsUnmappedLabel(LabelFacets[key], tp[key]))}
       |-> IF k \in DOMAIN ListFacets THEN WithoutUnmappedItems(ListFacets[k], tp[k])
           ELSE tp[k]]

\* C11: dropping an unmapped label affects nothing else: the call on a
\* dictionary ends as the call on the same dictionary with its unmapped
\* labels removed ends, with the same parameter set (the codes of the
\* other labels of the facet in their order, every other facet the same).
C11_UnmappedLabelsChangeNothing ==
    /\ ppc = "returned" =>
          /\ ~convert_tool_params_to_search_params(WithoutUnmappedLabels(tool_params)).exc
          /\ search_params
                = convert_tool_params_to_search_params(WithoutUnmappedLabels(tool_params)).val
    /\ ppc = "raised" =>
          convert_tool_params_to_search_params(WithoutUnmappedLabels(tool_params)).exc

\* An unmapped area between two mapped ones and an unmapped education were
\* dropped; the two area codes are there in their order.
C11_Witness ==
    /\ ppc = "returned"
    /\ "area" \in DOMAIN tool_params
    /\ tool_params["area"] = VList(<<VStr(l_taipei), VStr(l_unknown), VStr(l_new_taipei)>>)
    /\ "education" \in DOMAIN tool_params /\ tool_params["education"] = VStr(l_unknown)
    /\ "sort_by" \in DOMAIN tool_params /\ tool_params["sort_by"] = VStr(l_relevance)
    /\ DOMAIN search_params = {"area", "sort_by"}
    /\ search_params["area"] = <<c_taipei, c_new_taipei>>
    /\ search_params["sort_by"] = <<"1">>


(***************************************************************************)
(* search_104_jobs                                                         *)
(***************************************************************************)
VBool(b) == [t |-> "bool", v |-> b]

\* Entries of the facet maps job104.py imports besides the four above.
l_day     == <<"u65e5", "u73ed">>
l_night   == <<"u591c", "u73ed">>
l_graveyard == <<"u5927", "u591c", "u73ed">>
l_shift   == <<"u8f2a", "u73ed">>
l_1year   == <<"1", "u5e74", "u4ee5", "u4e0b">>
l_listed  == <<"u4e0a", "u5e02", "u4e0a", "u6ac3">>
l_bonus   == <<"u5e74", "u7d42", "u734e", "u91d1">>

WORK_PERIOD_MAP == (l_day :> <<"1">>) @@ (l_night :> <<"2">>) @@ (l_graveyard :> <<"4">>)

ROTATION_MAP == (l_shift :> <<"2", "5", "6">>)

EXPERIENCE_MAP == (l_1year :> <<"1">>)

COMPANY_TYPE_MAP == (l_listed :> <<"1", "6">>)

WELFARE_MAP == (l_bonus :> <<"1">>)

\* MAP.get(key, key)
GetOrSelf(map, key) == IF key \in DOMAIN map THEN map[key] ELSE key

\* "[x] if isinstance(x, str) else x", as a sequence of strings.
AsList(v) == IF v.t = "str" THEN <<v.v>> ELSE [i \in 1..Len(v.v) |-> v.v[i].v]

\* [MAP.get(x, x) for x in xs]
GetAll(map, xs) == [i \in 1..Len(xs) |-> GetOrSelf(map, xs[i])]

RECURSIVE Join(_, _)
\* sep.join(ss)
Join(sep, ss) ==
    IF ss = <<>> THEN <<>>
    ELSE IF Len(ss) = 1 THEN ss[1]
    ELSE ss[1] \o sep \o Join(sep, Tail(ss))

RECURSIVE SumInts(_)
\* sum(int(code) for code in codes): the total, or the ValueError of int().
SumInts(codes) ==
    IF codes = <<>> THEN [exc |-> FALSE, val |-> 0]
    ELSE IF ParseInt(codes[1]).exc THEN [exc |-> TRUE, val |-> 0]
    ELSE IF SumInts(Tail(codes)).exc THEN [exc |-> TRUE, val |-> 0]
    ELSE [exc |-> FALSE, val |-> ParseInt(codes[1]).val + SumInts(Tail(codes)).val]

\* A facet sent as the comma-joined codes of its values.
StepJoined(st, arg, key, map) ==
    IF st.exc \/ ~IsTruthy(arg) THEN st
    ELSE Go(Put(st.val, key, Join(<<",">>, GetAll(map, AsList(arg)))))

\* A facet sent as the code of its one value.
StepSingle(st, arg, key, map) ==
    IF st.exc \/ ~IsTruthy(arg) THEN st
    ELSE Go(Put(st.val, key, GetOrSelf(map, arg.v)))

\* The codes joined with commas, as the list facets are sent.
bitmask_joined(codes) ==
    [exc |-> FALSE, val |-> Join(<<",">>, codes)]

\* "str(sum(int(code) for code in period_codes))"
bitmask_sum(codes) ==
    IF SumInts(codes).exc THEN [exc |-> TRUE, val |-> <<>>]
    ELSE [exc |-> FALSE, val |-> ToDigits(SumInts(codes).val)]

\* The work periods: sent as the sum of their codes.
StepWorkPeriod(st, arg) ==
    IF st.exc \/ ~IsTruthy(arg) THEN st
    ELSE IF GetAll(WORK_PERIOD_MAP, AsList(arg)) = <<>> THEN st
    ELSE IF bitmask_sum(GetAll(WORK_PERIOD_MAP, AsList(arg))).exc THEN Raised
    ELSE Go(Put(st.val, "s9", bitmask_sum(GetAll(WORK_PERIOD_MAP, AsList(arg))).val))

\* "if x: params[key] = x"
StepIfTruthy(st, arg, key) ==
    IF st.exc \/ ~IsTruthy(arg) THEN st ELSE Go(Put(st.val, key, arg.v))

\* "if x is not None: params[key] = x"
StepIfNotNone(st, arg, key) ==
    IF st.exc \/ arg = VNull THEN st ELSE Go(Put(st.val, key, arg.v))

\* "if x ...: params[key] = '1' if test else '0'"
StepFlag(st, present, key, test) ==
    IF st.exc \/ ~present THEN st
    ELSE Go(Put(st.val, key, IF test THEN <<"1">> ELSE <<"0">>))

\* The statements of search_104_jobs that build params, in order: the
\* dictionary, or the exception that leaves the function.
build_params(a) ==
    LET s1  == StepIfTruthy(Go(EmptyDict), a.keyword, "keyword")
        s2  == Go(Put(s1.val, "page", a.page))
        s3  == StepFlag(s2, a.keyword_in_job_title_only, "kwop", TRUE)
        s4  == StepJoined(s3, a.area, "area", AREA_MAP)
        s5  == StepJoined(s4, a.job_category, "jobcat", JOB_TYPE_MAP)
        s6  == StepIfNotNone(s5, a.salary_min, "scmin")
        s7  == StepIfNotNone(s6, a.salary_max, "scmax")
        s8  == StepWorkPeriod(s7, a.work_period)
        s9  == StepSingle(s8, a.rotation, "s5", ROTATION_MAP)
        s10 == StepFlag(s9, a.weekend_off # VNull, "wktm", IsTruthy(a.weekend_off))
        s11 == StepIfNotNone(s10, a.posted_within_days, "isnew")
        s12 == StepSingle(s11, a.experience_years, "jobexp", EXPERIENCE_MAP)
        s13 == StepSingle(s12, a.education, "edu", EDUCATION_MAP)
        s14 == StepJoined(s13, a.company_type, "zone", COMPANY_TYPE_MAP)
        s15 == StepJoined(s14, a.welfare, "wf", WELFARE_MAP)
        s16 == StepSingle(s15, a.sort_by, "order", SORT_BY_MAP)
    IN  StepFlag(s16, a.sort_order # <<>>, "asc", a.sort_order = <<"a", "s", "c">>)

(***************************************************************************)
(* The arguments search_104_jobs is invoked with: values of the types of   *)
(* its signature, labels the maps hold and labels they do not hold.        *)
(***************************************************************************)
s_4 == <<"4">>

PlainArgs ==
    {[keyword |-> VNull, page |-> 1, keyword_in_job_title_only |-> FALSE,
      salary_min |-> VNull, salary_max |-> VNull, weekend_off |-> VNull,
      posted_within_days |-> VNull, sort_order |-> <<"d", "e", "s", "c">>],
     [keyword |-> VStr(s_python), page |-> 2, keyword_in_job_title_only |-> TRUE,
      salary_min |-> VNum(40000), salary_max |-> VNum(60000), weekend_off |-> VBool(TRUE),
      posted_within_days |-> VNum(7), sort_order |-> <<"a", "s", "c">>],
     [keyword |-> VStr(<<>>), page |-> 1, keyword_in_job_title_only |-> FALSE,
      salary_min |-> VNum(0), salary_max |-> VNull, weekend_off |-> VBool(FALSE),
      posted_within_days |-> VNum(0), sort_order |-> <<>>]}

WorkPeriodArgs ==
    {VNull, VList(<<>>), VStr(l_day), VStr(l_unknown),
     VList(<<VStr(l_day), VStr(l_night)>>), VList(<<VStr(l_night), VStr(l_day)>>),
     VList(<<VStr(l_day), VStr(s_4)>>), VStr(l_graveyard),
     VList(<<VStr(l_day), VStr(l_night), VStr(l_graveyard)>>),
     VList(<<VStr(l_graveyard), VStr(l_day), VStr(l_night)>>)}

FacetArgs ==
    [area : {VNull, VStr(l_taipei), VList(<<VStr(l_taipei), VStr(l_unknown)>>)},
     job_category : {VNull, VList(<<VStr(l_software)>>)},
     work_period : WorkPeriodArgs,
     rotation : {VNull, VStr(l_unknown)},
     experience_years : {VNull, VStr(l_1year)},
     education : {VNull, VStr(l_university)},
     company_type : {VNull, VList(<<VStr(l_listed), VStr(l_unknown)>>)},
     welfare : {VNull, VList(<<VStr(l_bonus)>>)},
     sort_by : {VNull, VStr(l_relevance)}]

\* The record with the fields of both records.
Merge(r, q) == [k \in DOMAIN r \cup DOMAIN q |-> IF k \in DOMAIN r THEN r[k] ELSE q[k]]

SearchArgs == {Merge(p, f) : p \in PlainArgs, f \in FacetArgs}

\* What the GET of one request ends as.
GetOutcomes == {"ok", "timeout", "connection_error", "http_error", "bad_json"}

\* The payloads the job board answers with.
Payloads == {"jobs", "no_jobs", "error_status"}

InitSearch ==
    /\ search_args \in SearchArgs
    /\ jpc = "call"
    /\ query_params = Nothing
    /\ jgets = 0
    /\ jresult = Nothing
    /\ IdleBase /\ IdleSrchRest

\* search_104_jobs up to its try block: params is built, or an exception
\* of the building statements leaves the function as it is.
BuildParams ==
    /\ jpc = "call"
    /\ jpc' = IF build_params(search_args).exc THEN "build_raised" ELSE "built"
    /\ query_params' = IF build_params(search_args).exc THEN Nothing
                       ELSE build_params(search_args).val
    /\ jresult' = IF build_params(search_args).exc
                  THEN [kind |-> "raw", error |-> "ValueError"] ELSE Nothing
    /\ UNCHANGED <<search_args, jgets, baseVars, srchRest>>

\* The try block: one requests.get, raise_for_status and response.json().
\* A requests.RequestException is wrapped in Exception("Failed to fetch job
\* data from 104: ..."). The error of response.json() on a body that is no
\* JSON is a RequestException in requests 2.27 and later and a plain
\* ValueError before.
SendGet ==
    /\ jpc = "built"
    /\ jgets' = jgets + 1
    /\ \E outcome \in GetOutcomes :
          \/ /\ outcome = "ok"
             /\ \E payload \in Payloads :
                   jresult' = [kind |-> "payload", payload |-> payload]
             /\ jpc' = "returned"
          \/ /\ outcome \in {"timeout", "connection_error", "http_error"}
             /\ jresult' = [kind |-> "wrapped", upstream |-> outcome]
             /\ jpc' = "failed"
          \/ /\ outcome = "bad_json"
             /\ jresult' \in {[kind |-> "wrapped", upstream |-> outcome],
                              [kind |-> "raw", error |-> "ValueError"]}
             /\ jpc' = "failed"
    /\ UNCHANGED <<search_args, query_params, baseVars, srchRest>>

NextSearch == BuildParams \/ SendGet

SpecSearch == InitSearch /\ [][NextSearch]_vars

(***************************************************************************)
(* C12                                                                     *)
(***************************************************************************)
\* The facets of search_104_jobs that are looked up and sent as they are
\* or comma-joined: the argument, the query parameter and the map.
LookedUpFacets ==
    {[arg |-> "area", key |-> "area", map |-> AREA_MAP],
     [arg |-> "job_category", key |-> "jobcat", map |-> JOB_TYPE_MAP],
     [arg |-> "rotation", key |-> "s5", map |-> ROTATION_MAP],
     [arg |-> "experience_years", key |-> "jobexp", map |-> EXPERIENCE_MAP],
     [arg |-> "education", key |-> "edu", map |-> EDUCATION_MAP],
     [arg |-> "company_type", key |-> "zone", map |-> COMPANY_TYPE_MAP],
     [arg |-> "welfare", key |-> "wf", map |-> WELFARE_MAP],
     [arg |-> "sort_by", key |-> "order", map |-> SORT_BY_MAP]}

\* The values given for a facet.
GivenValues(arg) ==
    IF IsTruthy(arg) THEN {AsList(arg)[i] : i \in 1..Len(AsList(arg))} ELSE {}

\* The values a query parameter carries, between its commas.
SentValues(params, key) ==
    IF key \in DOMAIN params
    THEN {Split(params[key], ",")[i] : i \in 1..Len(Split(params[key], ","))}
    ELSE {}

\* The sum of the codes of the given work periods the map holds.
RECURSIVE MappedPeriodSum(_)
MappedPeriodSum(periods) ==
    IF periods = <<>> THEN 0
    ELSE (IF periods[1] \in DOMAIN WORK_PERIOD_MAP
          THEN ParseInt(WORK_PERIOD_MAP[periods[1]]).val ELSE 0)
         + MappedPeriodSum(Tail(periods))

\* C12: no facet lookup of search_104_jobs raises, and a value that is no
\* key of its facet's map is skipped: it is not among the values of the
\* facet's query parameter, and the work-period parameter is the sum of the
\* codes of the periods the map holds.
C12_UnmappedLabelNeverSent ==
    /\ jpc # "build_raised"
    /\ query_params # Nothing =>
          /\ \A f \in LookedUpFacets :
                (GivenValues(search_args[f.arg]) \ DOMAIN f.map)
                    \cap SentValues(query_params, f.key) = {}
          /\ "s9" \in DOMAIN query_params =>
                query_params["s9"] = ToDigits(MappedPeriodSum(AsList(search_args.work_period)))

(***************************************************************************)
(* extract_json_from_text. A text is a sequence of lexemes: the braces,    *)
(* "m" for the members ("key": value) of an object, "n" for a number,      *)
(* "p" for a word of prose, "F" for a fence of three backticks, "J" for    *)
(* the tag json, and the space.                                            *)
(***************************************************************************)
Lexemes == {"{", "}", "m", "n", "p", "F", "J", " "}

\* json.loads(s): the value, or JSONDecodeError. The documents of this
\* alphabet are a number, the empty object and an object of one member,
\* with whitespace around the value and inside the braces.
\* The object whose braces hold the lexemes inner.
object_of(inner) ==
    IF inner \in {<<>>, <<"m">>}
    THEN [exc |-> FALSE, val |-> [type |-> "object", members |-> Len(inner)]]
    ELSE [exc |-> TRUE, val |-> Nothing]

\* The document t, which neither starts nor ends with whitespace.
document_of(t) ==
    IF t = <<"n">> THEN [exc |-> FALSE, val |-> [type |-> "number", members |-> 0]]
    ELSE IF Len(t) >= 2 /\ t[1] = "{" /\ t[Len(t)] = "}"
    THEN object_of(Strip(SubSeq(t, 2, Len(t) - 1)))
    ELSE [exc |-> TRUE, val |-> Nothing]

json_loads(s) == document_of(Strip(s))

\* The index after the whitespace that starts at i.
RECURSIVE SkipSpace(_, _)
SkipSpace(s, i) ==
    IF i <= Len(s) /\ s[i] \in Whitespace THEN SkipSpace(s, i + 1) ELSE i

\* The fence pattern matches with its opening fence at i, its brace at b
\* and the closing brace of its group at e.
FenceMatches(s, i, b, e) ==
    /\ s[i] = "F"
    /\ b = SkipSpace(s, IF i + 1 <= Len(s) /\ s[i + 1] = "J" THEN i + 2 ELSE i + 1)
    /\ b <= Len(s) /\ s[b] = "{"
    /\ e > b /\ s[e] = "}"
    /\ SkipSpace(s, e + 1) <= Len(s) /\ s[SkipSpace(s, e + 1)] = "F"

\* The starts of all matches of the fence pattern, with their groups.
FenceCandidates(s) ==
    {c \in [i : 1..Len(s), b : 1..Len(s), e : 1..Len(s)] : FenceMatches(s, c.i, c.b, c.e)}

\* re.findall(json_pattern, text)[0] is the group of the leftmost match, which
\* the lazy quantifier ends at the first closing brace a fence follows.
Leftmost(cs) ==
    CHOOSE c \in cs : \A d \in cs : c.i < d.i \/ (c.i = d.i /\ c.e <= d.e)

GroupOf(s, c) == SubSeq(s, c.b, c.e)

\* re.findall(brace_pattern, text): the greedy pattern matches once, from
\* the first opening brace to the last closing brace of the text.
BraceMatches(s) ==
    IF Find(s, "{", 0) >= 0 /\ RFind(s, "}") > Find(s, "{", 0)
    THEN <<SubSeq(s, Find(s, "{", 0) + 1, RFind(s, "}") + 1)>>
    ELSE <<>>

\* The loop over the brace matches: the first that parses.
\* try: return json.loads(...) / except json.JSONDecodeError: what follows
ValueOr(loaded, otherwise) == IF loaded.exc THEN otherwise ELSE loaded.val

\* The loop over the brace matches: the first that parses.
first_parsed(matches) ==
    IF matches # <<>> THEN ValueOr(json_loads(matches[1]), Nothing) ELSE Nothing

\* The second attempt, on the matches of the fence pattern, and the third.
after_direct_parse(s, candidates) ==
    IF candidates # {}
    THEN ValueOr(json_loads(GroupOf(s, Leftmost(candidates))), first_parsed(BraceMatches(s)))
    ELSE first_parsed(BraceMatches(s))

\* extract_json_from_text(text): the parsed value, Nothing for None.
extract_json_from_text(s) ==
    ValueOr(json_loads(Strip(s)), after_direct_parse(s, FenceCandidates(s)))

\* The longest text, in lexemes.
MaxLexemes == 5

Texts == UNION {[1..n -> Lexemes] : n \in 0..MaxLexemes}

InitJson ==
    /\ js_text \in Texts
    /\ js_pc = "call"
    /\ js_result = Nothing
    /\ IdleBase /\ IdleJsonRest

\* The call extract_json_from_text(js_text) and its return.
ExtractJsonCall ==
    /\ js_pc = "call"
    /\ js_pc' = "returned"
    /\ js_result' = extract_json_from_text(js_text)
    /\ UNCHANGED <<js_text, baseVars, jsonRest>>

NextJson == ExtractJsonCall

SpecJson == InitJson /\ [][NextJson]_vars

\* A substring of the text that starts with an opening brace, ends with a
\* closing brace and parses as JSON.
HasParseableBraces(s) ==
    \E i \in 1..Len(s) : \E j \in i..Len(s) :
        s[i] = "{" /\ s[j] = "}" /\ ~json_loads(SubSeq(s, i, j)).exc

EmptyObject == [type |-> "object", members |-> 0]

OneMember == [type |-> "object", members |-> 1]

\* C13: extract_json_from_text returns the object of a text that is a bare
\* JSON object, of a text that wraps one in a fenced block and of a text that
\* embeds one in prose, and it returns None only if no substring of the text
\* from an opening brace to a closing brace parses as JSON.
C13_NoneOnlyWithoutParseableBraces ==
    js_pc = "returned" =>
        /\ js_text = <<"{", "m", "}">> => js_result = OneMember
        /\ js_text = <<"F", "J", "{", "}", "F">> => js_result = EmptyObject
        /\ js_text = <<"p", "{", "m", "}", "p">> => js_result = OneMember
        /\ js_result = Nothing => ~HasParseableBraces(js_text)

(***************************************************************************)
(* chat_with_job_search of workflow/job_search.py (the prompt-JSON         *)
(* protocol).                                                              *)
(***************************************************************************)
VDict(d) == [t |-> "dict", v |-> d]

\* d.get(key, default)
Get(d, key, default) == IF key \in DOMAIN d THEN d[key] ELSE default

\* The value extract_json_from_text gives for the reply; the lexeme "n" stands
\* for the number 42.
value_of(extracted, object) ==
    IF extracted = Nothing THEN VNull
    ELSE IF extracted.type = "number" THEN VNum(42)
    ELSE IF extracted.members = 0 THEN VDict(EmptyDict)
    ELSE VDict(object)

parsed_json_of(reply) == value_of(extract_json_from_text(reply.text), reply.object)

\* An exception: its class and its message.
Exc(cls, msg) == [cls |-> cls, msg |-> msg]

m_type_error    == <<"argument is not iterable">>
m_missing_arg   == <<"missing 1 required positional argument: 'keyword'">>
m_fetch_failed  == <<"Failed to fetch job data from 104: ">>
m_exec_failed   == <<"Failed to execute job search: ">>
m_search_error  == <<"u641c", "u5c0b", "u6642", "u767c", "u751f", "u932f", "u8aa4", "uff1a">>

\* convert_tool_params_to_search_params(tool_params) for any value of
\* tool_params: "key" in tool_params raises TypeError for None, a number and
\* a boolean, and indexing a list with a key raises TypeError.
resolve_params(params) ==
    CASE params.t = "dict" -> convert_tool_params_to_search_params(params.v)
      [] params.t = "list" ->
            IF \E i \in 1..Len(params.v) :
                   params.v[i].t = "str" /\ params.v[i].v \in {<<k>> : k \in ToolKeys}
            THEN Raised ELSE Go(EmptyDict)
      [] OTHER -> Raised

\* What search_104_jobs gives its caller: a payload, the wrapped failure or
\* a raw exception.
SearchReturns ==
    {[kind |-> "payload", payload |-> p] : p \in Payloads}
    \cup {[kind |-> "wrapped", upstream |-> o] : o \in GetOutcomes \ {"ok"}}
    \cup {[kind |-> "raw", error |-> "ValueError"]}

\* The exception search_104_jobs raises for the return ret.
search_exception(ret) ==
    IF ret.kind = "wrapped" THEN Exc("Exception", m_fetch_failed \o <<ret.upstream>>)
    ELSE Exc(ret.error, <<"invalid literal">>)

\* execute_job_search_tool(tool_params), given what search_104_jobs does if
\* it is called: the payload, or the exception raised.
execute_resolved(resolved, ret) ==
    IF resolved.exc
    THEN [exc |-> Exc("TypeError", m_type_error), val |-> Nothing]
    ELSE IF "keyword" \notin DOMAIN resolved.val
    THEN [exc |-> Exc("Exception", m_exec_failed \o m_missing_arg), val |-> Nothing]
    ELSE IF ret.kind # "payload"
    THEN [exc |-> Exc("Exception", m_exec_failed \o search_exception(ret).msg),
          val |-> Nothing]
    ELSE [exc |-> Nothing, val |-> ret.payload]

execute_job_search_tool(params, ret) == execute_resolved(resolve_params(params), ret)

\* The clause except Exception catches every exception of a class derived
\* from Exception.
ExceptionClasses == {"Exception", "TypeError", "ValueError", "AttributeError"}

catches_only_wrapped(e) == e.cls = "Exception"

except_Exception_catches(e) == e.cls \in ExceptionClasses

\* Where the function goes after the search step.
pc_after_search_ignoring_failure(failed) == "formatted"

pc_after_search(failed) == IF failed THEN "returned" ELSE "formatted"

need_search_default_true(d) == Get(d, "need_search", VBool(TRUE))

\* parsed_json.get("need_search", False)
need_search_of(d) == Get(d, "need_search", VBool(FALSE))

\* The dictionary result as chat_with_job_search creates it.
InitialResult ==
    [search_params |-> VDict(EmptyDict), search_results |-> <<>>,
     final_response |-> VStr(<<>>), need_search |-> VBool(FALSE)]

m_hello  == <<"u4f60", "u597d">>
m_answer == <<"u63a8", "u85a6">>

\* The texts of the first LLM reply: a bare object, a fenced one, one in
\* prose, two objects in prose, the empty object, prose only, the empty
\* text and a bare number.
ChatTexts ==
    {<<"{", "m", "}">>, <<"F", "J", " ", "{", "m", "}", " ", "F">>,
     <<"p", " ", "{", "m", "}", " ", "p">>,
     <<"{", "m", "}", "p", "{", "m", "}">>,
     <<"{", "}">>, <<"p", " ", "p">>, <<>>, <<"n">>}

NeedSearchValues == {Absent, VBool(TRUE), VBool(FALSE), VNull, VStr(<<"yes">>)}

MessageValues == {Absent, VStr(m_hello), VNull}

ChatToolParams ==
    {EmptyDict,
     "keyword" :> VStr(s_python),
     ("keyword" :> VStr(s_python)) @@ ("area" :> VList(<<VStr(l_taipei), VStr(l_unknown)>>)),
     ("keyword" :> VStr(s_python)) @@ ("area" :> VNum(3)),
     "posted_within_days" :> VNum(7)}

ParamsValues ==
    {Absent, VNull, VNum(3), VList(<<>>), VList(<<VStr(<<"keyword">>)>>)}
    \cup {VDict(tp) : tp \in ChatToolParams}

ChatKeys == {"need_search", "message", "params"}

\* The object holding the keys of the choice c that are not absent, and a
\* key of no meaning if all are.
ObjectOf(c) ==
    IF \A key \in ChatKeys : c[key] = Absent THEN "other" :> VNum(1)
    ELSE [k \in {key \in ChatKeys : c[key] # Absent} |-> c[k]]

Objects ==
    {ObjectOf(c) : c \in [need_search : NeedSearchValues,
                          message : MessageValues,
                          params : ParamsValues]}

HasMembers(text) == \E i \in 1..Len(text) : text[i] = "m"

Replies ==
    {r \in [text : ChatTexts, object : Objects \cup {EmptyDict}] :
        HasMembers(r.text) <=> r.object # EmptyDict}

InitChat ==
    /\ cj_pc = "start"
    /\ cj_reply = Nothing
    /\ cj_params = Nothing
    /\ cj_calls = <<>>
    /\ cj_result = Nothing
    /\ cj_exc = Nothing
    /\ IdleBase /\ IdleChatRest

\* Lines 84-118: result is created and the first call_llm is made; it gives
\* a reply or raises, and nothing catches what it raises.
FirstLLMCall ==
    /\ cj_pc = "start"
    /\ cj_calls' = Append(cj_calls, "llm")
    /\ cj_result' = InitialResult
    /\ \/ /\ cj_reply' \in Replies
          /\ cj_pc' = "replied"
          /\ UNCHANGED cj_exc
       \/ /\ cj_pc' = "raised"
          /\ cj_exc' = Exc("Exception", <<"LLM API call failed">>)
          /\ UNCHANGED cj_reply
    /\ UNCHANGED <<cj_params, baseVars, chatRest>>

\* Lines 131-141, for the dictionary d parsed and its need_search.
HandleObject(d, need_search) ==
    IF ~IsTruthy(need_search)
    THEN /\ cj_result' =
               [cj_result EXCEPT
                   !.need_search = need_search,
                   !.final_response = Get(d, "message", VStr(cj_reply.text))]
         /\ cj_pc' = "returned"
         /\ UNCHANGED <<cj_params, cj_exc>>
    ELSE /\ cj_params' = Get(d, "params", VDict(EmptyDict))
         /\ cj_result' =
               [cj_result EXCEPT
                   !.need_search = need_search,
                   !.search_params = Get(d, "params", VDict(EmptyDict))]
         /\ cj_pc' = "searching"
         /\ UNCHANGED cj_exc

\* Lines 124-141, for the value parsed_json. A value that is true and no
\* dictionary has no get: AttributeError.
HandleParsed(parsed_json) ==
    IF ~IsTruthy(parsed_json)
    THEN /\ cj_result' = [cj_result EXCEPT !.final_response = VStr(cj_reply.text)]
         /\ cj_pc' = "returned"
         /\ UNCHANGED <<cj_params, cj_exc>>
    ELSE IF parsed_json.t # "dict"
    THEN /\ cj_pc' = "raised"
         /\ cj_exc' = Exc("AttributeError", <<"object has no attribute 'get'">>)
         /\ UNCHANGED <<cj_params, cj_result>>
    ELSE HandleObject(parsed_json.v, need_search_of(parsed_json.v))

\* Lines 122-141: the reply is parsed and the function returns the raw
\* text, returns the message, or goes on to the search.
HandleReply ==
    /\ cj_pc = "replied"
    /\ HandleParsed(parsed_json_of(cj_reply))
    /\ UNCHANGED <<cj_reply, cj_calls, baseVars, chatRest>>

\* The try block of lines 146-159, for what execute_job_search_tool gives:
\* the new values of cj_pc, cj_exc, cj_calls and cj_result.
AfterExecute(executed) ==
    IF executed.exc = Nothing
    THEN /\ cj_pc' = pc_after_search(FALSE)
         /\ cj_exc' = Nothing
         /\ cj_calls' = cj_calls \o <<"search", "format">>
         /\ cj_result' = [cj_result EXCEPT !.search_results = Append(@, executed.val)]
    ELSE /\ cj_exc' = executed.exc
         /\ cj_calls' = Append(cj_calls, "search")
         /\ IF except_Exception_catches(executed.exc)
            THEN /\ cj_pc' = pc_after_search(TRUE)
                 /\ cj_result' =
                       [cj_result EXCEPT
                           !.final_response = VStr(m_search_error \o executed.exc.msg)]
            ELSE /\ cj_pc' = "raised"
                 /\ UNCHANGED cj_result

\* Lines 146-159: execute_job_search_tool and format_job_search_results.
ExecuteSearch ==
    /\ cj_pc = "searching"
    /\ \E ret \in SearchReturns : AfterExecute(execute_job_search_tool(cj_params, ret))
    /\ UNCHANGED <<cj_reply, cj_params, baseVars, chatRest>>

\* Lines 163-188: the second call_llm; it gives the final answer or raises.
SecondLLMCall ==
    /\ cj_pc = "formatted"
    /\ cj_calls' = Append(cj_calls, "llm")
    /\ \/ /\ cj_result' = [cj_result EXCEPT !.final_response = VStr(m_answer)]
          /\ cj_pc' = "returned"
          /\ UNCHANGED cj_exc
       \/ /\ cj_pc' = "raised"
          /\ cj_exc' = Exc("Exception", <<"LLM API call failed">>)
          /\ UNCHANGED cj_result
    /\ UNCHANGED <<cj_reply, cj_params, baseVars, chatRest>>

NextChat == FirstLLMCall \/ HandleReply \/ ExecuteSearch \/ SecondLLMCall

SpecChat == InitChat /\ [][NextChat]_vars

\* The function is past the handling of the reply.
ReplyHandled == cj_pc \in {"searching", "formatted", "returned", "raised"} /\ cj_reply # Nothing

\* C14: when no JSON object is obtained from the first reply (no attempt
\* parses, or the parsed value is no object), chat_with_job_search returns
\* with final_response the raw text of the reply, having made one LLM call
\* and no search.
C14_NoObjectGivesRawText ==
    (ReplyHandled /\ parsed_json_of(cj_reply).t # "dict") =>
        /\ cj_pc = "returned"
        /\ cj_result.final_response = VStr(cj_reply.text)
        /\ cj_calls = <<"llm">>

\* The parsed object has need_search false or has no need_search.
NeedSearchFalseOrAbsent ==
    /\ ReplyHandled
    /\ parsed_json_of(cj_reply).t = "dict"
    /\ ("need_search" \in DOMAIN parsed_json_of(cj_reply).v
            => parsed_json_of(cj_reply).v["need_search"] = VBool(FALSE))

\* C15: when the parsed object has need_search false or absent, the final
\* answer is its message, or the raw text if it has none; one LLM call is
\* made, no search, and search_results stays empty.
C15_NoSearchGivesMessage ==
    NeedSearchFalseOrAbsent =>
        /\ cj_pc = "returned"
        /\ cj_result.final_response =
              IF "message" \in DOMAIN parsed_json_of(cj_reply).v
              THEN parsed_json_of(cj_reply).v["message"]
              ELSE VStr(cj_reply.text)
        /\ cj_calls = <<"llm">>
        /\ cj_result.search_results = <<>>

C15_Witness ==
    /\ NeedSearchFalseOrAbsent
    /\ cj_reply.text = <<"F", "J", " ", "{", "m", "}", " ", "F">>
    /\ "need_search" \in DOMAIN cj_reply.object
    /\ cj_result.final_response = VStr(m_hello)

C15_WitnessRawText ==
    /\ NeedSearchFalseOrAbsent
    /\ "need_search" \notin DOMAIN cj_reply.object
    /\ cj_result.final_response = VStr(<<"p", " ", "{", "m", "}", " ", "p">>)

\* The search step failed: the search is the last call made and an
\* exception was raised in the try block.
SearchStepFailed == cj_calls = <<"llm", "search">> /\ cj_exc # Nothing

\* C16: a failure of the search step (params that cannot be resolved, a
\* transport error, a response that is no 2xx) is caught: the function
\* returns with final_response the error string that carries the message,
\* nothing is raised and the second LLM call is not made.
C16_SearchFailureIsCaught ==
    SearchStepFailed =>
        /\ cj_pc = "returned"
        /\ cj_result.final_response = VStr(m_search_error \o cj_exc.msg)
        /\ cj_result.search_results = <<>>

C16_Witness ==
    /\ SearchStepFailed
    /\ cj_params = VNull
    /\ cj_exc.cls = "TypeError"
    /\ cj_pc = "returned"

C16_WitnessTransport ==
    /\ SearchStepFailed
    /\ cj_exc.msg = m_exec_failed \o m_fetch_failed \o <<"http_error">>
    /\ cj_pc = "returned"

\* The order of the external calls of one request.
CallOrder == <<"llm", "search", "format", "llm">>

\* C17: the external calls of a request are made one after the other in the
\* order first LLM call, search, formatting, second LLM call; the second LLM
\* call is made only after a search that returned and was formatted, and
\* there are never more than two LLM calls or more than one search.
C17_CallsInFixedOrder ==
    /\ StartsWith(CallOrder, cj_calls)
    /\ (Len(cj_calls) = 4 => Len(cj_result.search_results) = 1)
    /\ (cj_pc = "formatted" => cj_calls = SubSeq(CallOrder, 1, 3))

C17_Witness ==
    /\ cj_calls = CallOrder
    /\ cj_pc = "returned"
    /\ cj_result.final_response = VStr(m_answer)

(***************************************************************************)
(* chat_with_job_search of llm_job_search_example.py (the tool-calling     *)
(* protocol) and extract_tool_calls of llm_client.py.                      *)
(***************************************************************************)
m_format_failed == <<"u641c", "u5c0b", "u5931", "u6557", "uff1a">>
m_format_none   == <<"u6c92", "u6709", "u627e", "u5230">>
m_format_found  == <<"u627e", "u5230">>

\* format_job_search_results(search_result), by the kind of payload: a
\* status other than 200, no job, or the list of jobs.
formatted_result_of(payload) ==
    CASE payload = "error_status" -> m_format_failed
      [] payload = "no_jobs"      -> m_format_none
      [] payload = "jobs"         -> m_format_found \o <<payload>>

\* The most tool calls of one response.
MaxToolCalls == 2

\* The arguments of a tool call: the JSON text and the members "m" stands for.
ArgumentTexts ==
    {[text |-> <<"{", "m", "}">>, object |-> "keyword" :> VStr(s_python)],
     [text |-> <<"{", "m", "}">>,
      object |-> ("keyword" :> VStr(s_python)) @@ ("area" :> VList(<<VStr(l_taipei)>>))],
     [text |-> <<"{", "}">>, object |-> EmptyDict],
     [text |-> <<"{", "m">>, object |-> EmptyDict]}

ToolCallIds == {"call_a", "call_b"}

ToolNames == {"search_104_jobs", "other_tool"}

RawToolCalls == [id : ToolCallIds, name : ToolNames, arguments : ArgumentTexts]

\* The lists of tool calls of a response: the ids of one list differ.
RawToolCallLists ==
    {l \in UNION {[1..n -> RawToolCalls] : n \in 0..MaxToolCalls} :
        \A i, j \in DOMAIN l : i # j => l[i].id # l[j].id}

\* The first LLM response: choices is missing, empty or holds one message;
\* the message has its content and tool_calls missing, null or a list.
Responses ==
    {[choices |-> "absent", content |-> VNull, tool_calls |-> Absent],
     [choices |-> "empty", content |-> VNull, tool_calls |-> Absent]}
    \cup [choices : {"one"}, content : {VStr(m_hello)}, tool_calls : {Absent, VNull}]
    \cup {[choices |-> "one", content |-> c, tool_calls |-> VList(l)] :
             c \in {VStr(m_hello), VNull}, l \in RawToolCallLists}

\* One entry of extract_tool_calls: id, name and the arguments parsed, or
\* the JSONDecodeError of json.loads.
parsed_tool_call(raw) ==
    IF json_loads(raw.arguments.text).exc
    THEN [exc |-> TRUE, val |-> Nothing]
    ELSE [exc |-> FALSE,
          val |-> [id |-> raw.id, name |-> raw.name,
                   arguments |-> value_of(json_loads(raw.arguments.text).val,
                                          raw.arguments.object)]]

\* extract_tool_calls(llm_response): the list, or the exception raised.
\* Iterating over null raises TypeError.
extract_tool_calls(response) ==
    IF response.choices # "one" \/ response.tool_calls = Absent
    THEN [exc |-> Nothing, val |-> <<>>]
    ELSE IF response.tool_calls = VNull
    THEN [exc |-> Exc("TypeError", <<"'NoneType' object is not iterable">>), val |-> <<>>]
    ELSE IF \E i \in 1..Len(response.tool_calls.v) :
                parsed_tool_call(response.tool_calls.v[i]).exc
    THEN [exc |-> Exc("JSONDecodeError", <<"Expecting value">>), val |-> <<>>]
    ELSE [exc |-> Nothing,
          val |-> [i \in 1..Len(response.tool_calls.v) |->
                      parsed_tool_call(response.tool_calls.v[i]).val]]

\* A message of the conversation.
Message(role, id, body) == [role |-> role, tool_call_id |-> id, content |-> body]

SystemMessage == Message("system", None, VStr(<<"prompt">>))

UserMessage == Message("user", None, VStr(<<"user_message">>))

\* llm_response["choices"][0]["message"]
AssistantMessage(response) == Message("assistant", None, response.content)

ToolMessage(tool_call, payload) ==
    Message("tool", <<tool_call.id>>, VStr(formatted_result_of(payload)))

InitTool ==
    /\ tc_pc = "start"
    /\ tc_response = Nothing
    /\ tc_tool_calls = <<>>
    /\ tc_idx = 0
    /\ tc_messages = <<>>
    /\ tc_sent = <<>>
    /\ tc_calls = <<>>
    /\ tc_result = Nothing
    /\ tc_exc = Nothing
    /\ IdleBase /\ IdleToolRest

\* Lines 47-77: result and messages are created and the first call_llm is
\* made; it gives a response or raises.
TurnOne ==
    /\ tc_pc = "start"
    /\ tc_result' = [tool_calls |-> <<>>, search_results |-> <<>>,
                     final_response |-> VStr(<<>>), has_tool_call |-> FALSE]
    /\ tc_messages' = <<SystemMessage, UserMessage>>
    /\ tc_sent' = <<<<SystemMessage, UserMessage>>>>
    /\ tc_calls' = <<"llm">>
    /\ \/ /\ tc_response' \in Responses
          /\ tc_pc' = "responded"
          /\ UNCHANGED tc_exc
       \/ /\ tc_pc' = "raised"
          /\ tc_exc' = Exc("Exception", <<"Failed to call LLM API: ">>)
          /\ UNCHANGED tc_response
    /\ UNCHANGED <<tc_tool_calls, tc_idx, baseVars, toolRest>>

\* Lines 80-90, for what extract_tool_calls gave. With no tool call the
\* content of choices[0] is the final response: KeyError without choices,
\* IndexError with none.
AfterExtract(extracted) ==
    IF extracted.exc # Nothing
    THEN /\ tc_pc' = "raised"
         /\ tc_exc' = extracted.exc
         /\ UNCHANGED <<tc_tool_calls, tc_result>>
    ELSE IF extracted.val = <<>>
    THEN IF tc_response.choices = "one"
         THEN /\ tc_pc' = "returned"
              /\ tc_result' = [tc_result EXCEPT !.final_response = tc_response.content]
              /\ UNCHANGED <<tc_tool_calls, tc_exc>>
         ELSE /\ tc_pc' = "raised"
              /\ tc_exc' = IF tc_response.choices = "absent"
                           THEN Exc("KeyError", <<"'choices'">>)
                           ELSE Exc("IndexError", <<"list index out of range">>)
              /\ UNCHANGED <<tc_tool_calls, tc_result>>
    ELSE /\ tc_pc' = "looping"
         /\ tc_tool_calls' = extracted.val
         /\ tc_result' = [tc_result EXCEPT !.has_tool_call = TRUE]
         /\ UNCHANGED tc_exc

\* Lines 80-90: the tool calls are extracted; the function returns the
\* content, raises or enters the loop.
ExtractToolCalls ==
    /\ tc_pc = "responded"
    /\ AfterExtract(extract_tool_calls(tc_response))
    /\ UNCHANGED <<tc_response, tc_idx, tc_messages, tc_sent, tc_calls, baseVars, toolRest>>

\* Lines 93-119 for one search tool call and what execute_job_search_tool
\* gives: nothing catches its exception.
AfterToolSearch(tool_call, executed) ==
    /\ tc_calls' = IF executed.exc = Nothing THEN tc_calls \o <<"search", "format">>
                   ELSE Append(tc_calls, "search")
    /\ IF executed.exc = Nothing
       THEN /\ tc_result' =
                  [tc_result EXCEPT
                      !.tool_calls = Append(@, [tool_name |-> tool_call.name,
                                                parameters |-> tool_call.arguments]),
                      !.search_results = Append(@, executed.val)]
            /\ tc_messages' = tc_messages
                              \o <<AssistantMessage(tc_response),
                                   ToolMessage(tool_call, executed.val)>>
            /\ tc_idx' = tc_idx + 1
            /\ UNCHANGED <<tc_pc, tc_exc>>
       ELSE /\ tc_result' =
                  [tc_result EXCEPT
                      !.tool_calls = Append(@, [tool_name |-> tool_call.name,
                                                parameters |-> tool_call.arguments])]
            /\ tc_pc' = "raised"
            /\ tc_exc' = executed.exc
            /\ UNCHANGED <<tc_messages, tc_idx>>

\* Lines 92-119: one iteration of the loop over the tool calls. A call of
\* another tool is passed over.
RunToolCall ==
    /\ tc_pc = "looping"
    /\ tc_idx < Len(tc_tool_calls)
    /\ IF tc_tool_calls[tc_idx + 1].name = "search_104_jobs"
       THEN \E ret \in SearchReturns :
                AfterToolSearch(tc_tool_calls[tc_idx + 1],
                                execute_job_search_tool(tc_tool_calls[tc_idx + 1].arguments, ret))
       ELSE /\ tc_idx' = tc_idx + 1
            /\ UNCHANGED <<tc_pc, tc_messages, tc_calls, tc_result, tc_exc>>
    /\ UNCHANGED <<tc_response, tc_tool_calls, tc_sent, baseVars, toolRest>>

\* Lines 122-134: after the loop the second call_llm is made with messages;
\* it gives the final response or raises.
TurnTwo ==
    /\ tc_pc = "looping"
    /\ tc_idx = Len(tc_tool_calls)
    /\ tc_calls' = Append(tc_calls, "llm")
    /\ tc_sent' = Append(tc_sent, tc_messages)
    /\ \/ /\ tc_pc' = "returned"
          /\ tc_result' = [tc_result EXCEPT !.final_response = VStr(m_answer)]
          /\ UNCHANGED tc_exc
       \/ /\ tc_pc' = "raised"
          /\ tc_exc' = Exc("Exception", <<"Failed to call LLM API: ">>)
          /\ UNCHANGED tc_result
    /\ UNCHANGED <<tc_response, tc_tool_calls, tc_idx, tc_messages, baseVars, toolRest>>

NextTool == TurnOne \/ ExtractToolCalls \/ RunToolCall \/ TurnTwo

SpecTool == InitTool /\ [][NextTool]_vars

\* The first response holds a message and no tool invocation.
NoToolInvocation ==
    /\ tc_pc \in {"looping", "returned", "raised"}
    /\ tc_response # Nothing
    /\ tc_response.choices = "one"
    /\ tc_response.tool_calls \in {Absent, VNull, VList(<<>>)}

\* C18: when the first response holds no tool invocation, its content is
\* the final answer: one LLM call is made, no search, has_tool_call stays
\* false and tool_calls and search_results stay empty.
C18_NoToolCallGivesContent ==
    NoToolInvocation =>
        /\ tc_pc = "returned"
        /\ tc_result.final_response = tc_response.content
        /\ tc_calls = <<"llm">>
        /\ tc_result.has_tool_call = FALSE
        /\ tc_result.tool_calls = <<>>
        /\ tc_result.search_results = <<>>

IsSearchCall(tool_call) == tool_call.name = "search_104_jobs"

\* The invocations of the search tool, in the order of the response.
SearchInvocations == SelectSeq(tc_tool_calls, IsSearchCall)

\* C19: when the first response holds k >= 1 invocations of the search tool,
\* the conversation sent on turn 2 is the system and the user message, the
\* assistant message once, and one tool message per invocation, in order,
\* with the tool_call_id of its invocation; k searches were executed and
\* turn 2 is the second and last LLM call.
C19_TurnTwoConversation ==
    (Len(tc_sent) = 2 /\ Len(SearchInvocations) >= 1) =>
        /\ Len(tc_result.search_results) = Len(SearchInvocations)
        /\ Len(tc_sent[2]) = 3 + Len(SearchInvocations)
        /\ tc_sent[2][1] = SystemMessage
        /\ tc_sent[2][2] = UserMessage
        /\ tc_sent[2][3] = AssistantMessage(tc_response)
        /\ \A i \in 1..Len(SearchInvocations) :
              /\ tc_sent[2][3 + i].role = "tool"
              /\ tc_sent[2][3 + i].tool_call_id = <<SearchInvocations[i].id>>
        /\ tc_calls[Len(tc_calls)] = "llm"
        /\ Len(SelectSeq(tc_calls, LAMBDA c : c = "llm")) = 2

\* C20: a call of search_104_jobs sends at most one GET, and a call that
\* fails, while it builds the query or sends it, gives its caller the
\* wrapped failure and no other exception.
C20_OneGetAndWrappedFailure ==
    /\ jgets <= 1
    /\ (jpc \in {"build_raised", "failed"} => jresult.kind = "wrapped")

(***************************************************************************)
(* C21                                                                     *)
(***************************************************************************)
\* The work periods given, as a set.
PeriodSet(arg) == {AsList(arg)[i] : i \in 1..Len(AsList(arg))}

\* The argument work_period is a selection of work periods: one period or a
\* list of different periods, each a key of WORK_PERIOD_MAP.
IsPeriodSelection(arg) ==
    /\ IsTruthy(arg)
    /\ PeriodSet(arg) \subseteq DOMAIN WORK_PERIOD_MAP
    /\ Cardinality(PeriodSet(arg)) = Len(AsList(arg))

\* The sum of the codes of a set of work periods.
RECURSIVE CodeSum(_)
CodeSum(periods) ==
    IF periods = {} THEN 0
    ELSE DigitsValue(WORK_PERIOD_MAP[CHOOSE p \in periods : TRUE])
         + CodeSum(periods \ {CHOOSE p \in periods : TRUE})

\* C21: for every selection of work periods the query carries the parameter
\* s9 and its value is the decimal sum of the codes of the selected periods,
\* whatever their order, with no comma in it; one period given as a string
\* gives the code of that period.
C21_WorkPeriodsAreSummed ==
    (jpc # "call" /\ IsPeriodSelection(search_args.work_period)) =>
        /\ query_params # Nothing
        /\ "s9" \in DOMAIN query_params
        /\ query_params["s9"] = ToDigits(CodeSum(PeriodSet(search_args.work_period)))
        /\ \A i \in 1..Len(query_params["s9"]) : query_params["s9"][i] # ","
        /\ (search_args.work_period.t = "str" =>
               query_params["s9"] = WORK_PERIOD_MAP[search_args.work_period.v])

C21_Witness ==
    /\ jpc = "returned"
    /\ search_args.work_period = VList(<<VStr(l_graveyard), VStr(l_day), VStr(l_night)>>)
    /\ query_params["s9"] = <<"7">>

(***************************************************************************)
(* format_job_search_results of llm/tools.py, on the payload as a          *)
(* dictionary.                                                             *)
(***************************************************************************)
m_search_failed  == <<"u641c", "u5c0b", "u5931", "u6557", "uff1a">>
m_unknown_error  == <<"u672a", "u77e5", "u932f", "u8aa4">>
m_no_match       == <<"u6c92", "u6709", "u627e", "u5230", "u7b26", "u5408", "u689d", "u4ef6", "u7684", "u5de5", "u4f5c", "u3002">>
m_not_available  == <<"N", "/", "A">>
m_job_link       == <<"h", "t", "t", "p", "s", ":", "/", "/", "w", "w", "w", ".", "1", "0", "4", ".", "c", "o", "m", ".", "t", "w", "/", "j", "o", "b", "/">>

\* s[:n]
Take(s, n) == SubSeq(s, 1, IF n < Len(s) THEN n ELSE Len(s))

\* The digits ds with a comma before every group of three: f"{n:,}".
RECURSIVE Grouped(_)
Grouped(ds) ==
    IF Len(ds) <= 3 THEN ds
    ELSE Grouped(SubSeq(ds, 1, Len(ds) - 3)) \o <<",">> \o SubSeq(ds, Len(ds) - 2, Len(ds))

\* The first line (line 294), with the total and the number of jobs shown.
header_line(total, shown) ==
    <<"u627e", "u5230", " ">> \o Grouped(ToDigits(total)) \o <<" ", "u7b46", "u5de5", "u4f5c", "uff0c", "u4ee5", "u4e0b", "u662f", "u524d", " ">> \o ToDigits(shown)
    \o <<" ", "u7b46", "uff1a">> \o <<"\n">>

\* job.get(key, 'N/A') of a job whose values are strings
Field(job, key) == Get(job, key, VStr(m_not_available)).v

\* The ten lines of the job at index i (lines 297-306).
entry_lines(i, job) ==
    <<ToDigits(i) \o <<".", " ">> \o Field(job, "jobName"),
      <<" ", " ", " ", "u516c", "u53f8", "uff1a">> \o Field(job, "custName"),
      <<" ", " ", " ", "u5730", "u5340", "uff1a">> \o Field(job, "jobAddrNoDesc"),
      <<" ", " ", " ", "u85aa", "u8cc7", "uff1a">> \o Field(job, "salaryDesc"),
      <<" ", " ", " ", "u5b78", "u6b77", "uff1a">> \o Field(job, "optionEdu"),
      <<" ", " ", " ", "u7d93", "u6b77", "uff1a">> \o Field(job, "periodDesc"),
      <<" ", " ", " ", "u66f4", "u65b0", "uff1a">> \o Field(job, "appearDateDesc"),
      <<" ", " ", " ", "u9023", "u7d50", "uff1a">> \o m_job_link \o Get(job, "jobNo", VStr(<<>>)).v,
      <<" ", " ", " ", "u4ecb", "u7d39", "uff1a">> \o Take(Field(job, "description"), 100) \o <<".", ".", ".">>,
      <<>>>>

\* The lines of the jobs from index i on.
RECURSIVE all_entry_lines(_, _)
all_entry_lines(i, jobs) ==
    IF jobs = <<>> THEN <<>>
    ELSE entry_lines(i, jobs[1]) \o all_entry_lines(i + 1, Tail(jobs))

is_no_match_by_list(total, jobs) == jobs = <<>>

\* "if total == 0"
is_no_match(total, jobs) == total = 0

\* Lines 288-308, for the list, the total and max_jobs: jobs[:max_jobs] of a
\* max_jobs that is not negative.
format_jobs(jobs, total, max_jobs) ==
    IF is_no_match(total, jobs) THEN m_no_match
    ELSE Join(<<"\n">>,
              <<header_line(total, Len(Take(jobs, max_jobs)))>>
              \o all_entry_lines(0, Take(jobs, max_jobs)))

\* Lines 284-286, for the dictionary data.
format_data(data, max_jobs) ==
    format_jobs(Get(data, "list", VList(<<>>)).v, Get(data, "totalCount", VNum(0)).v, max_jobs)

\* format_job_search_results(result, max_jobs)
format_job_search_results(result, max_jobs) ==
    IF Get(result, "status", VNull) # VNum(200)
    THEN m_search_failed \o Get(result, "errorMsg", VStr(m_unknown_error)).v
    ELSE format_data(Get(result, "data", VDict(EmptyDict)).v, max_jobs)

\* Records of the job board, with the raw salary pair salaryLow and
\* salaryHigh and the descriptor salaryDesc the board writes.
job_python ==
    ("jobName" :> VStr(s_python)) @@ ("custName" :> VStr(<<"A", "C", "M", "E">>)) @@ ("jobNo" :> VStr(<<"8", "a", "b", "c">>))
    @@ ("salaryLow" :> VNum(40000)) @@ ("salaryHigh" :> VNum(60000))
    @@ ("salaryDesc" :> VStr(<<"u6708", "u85aa", "4", "0", ",", "0", "0", "0", "~", "6", "0", ",", "0", "0", "0", "u5143">>))
    @@ ("description" :> VStr([i \in 1..120 |-> "x"]))

job_negotiable ==
    ("jobName" :> VStr(<<"Q", "A">>)) @@ ("salaryLow" :> VNum(0)) @@ ("salaryHigh" :> VNum(0))
    @@ ("salaryDesc" :> VStr(<<"u5f85", "u9047", "u9762", "u8b70">>)) @@ ("description" :> VStr(<<"t", "e", "s", "t">>))

job_open_ended ==
    ("jobName" :> VStr(<<"S", "R", "E">>)) @@ ("salaryLow" :> VNum(50000)) @@ ("salaryHigh" :> VNum(9999999))

JobLists == {<<>>, <<job_python>>, <<job_negotiable, job_open_ended>>,
             <<job_open_ended, job_python, job_negotiable>>}

\* The dictionary with the keys of the choice c that are not absent.
Present(c) == [k \in {key \in DOMAIN c : c[key] # Absent} |-> c[k]]

DataValues ==
    {Present(c) : c \in [list : {Absent} \cup {VList(l) : l \in JobLists},
                         totalCount : {Absent, VNum(0), VNum(2), VNum(1234)}]}

FormatPayloads ==
    {Present(c) : c \in [status : {Absent, VNum(200), VNum(500)},
                         errorMsg : {Absent, VStr(<<"b", "u", "s", "y">>)},
                         data : {Absent} \cup {VDict(d) : d \in DataValues}]}

MaxJobsValues == {0, 1, 2, 100}

InitFormat ==
    /\ fm_payload \in FormatPayloads
    /\ fm_max_jobs \in MaxJobsValues
    /\ fm_pc = "call"
    /\ fm_result = Nothing
    /\ IdleBase /\ IdleFmtRest

\* The call format_job_search_results(fm_payload, fm_max_jobs) and its return.
FormatCall ==
    /\ fm_pc = "call"
    /\ fm_pc' = "returned"
    /\ fm_result' = VStr(format_job_search_results(fm_payload, fm_max_jobs))
    /\ UNCHANGED <<fm_payload, fm_max_jobs, baseVars, fmtRest>>

NextFormat == FormatCall

SpecFormat == InitFormat /\ [][NextFormat]_vars

\* result["data"]["list"] and result["data"]["totalCount"], with the
\* defaults of the code.
RecordList(payload) == Get(Get(payload, "data", VDict(EmptyDict)).v, "list", VList(<<>>)).v

TotalCount(payload) == Get(Get(payload, "data", VDict(EmptyDict)).v, "totalCount", VNum(0)).v

\* C22: for every payload whose list of records is empty and every max_jobs
\* the text returned is the sentence for no match, and the text returned is
\* never the empty string.
C22_EmptyListGivesNoMatch ==
    fm_pc = "returned" =>
        /\ (RecordList(fm_payload) = <<>> => fm_result = VStr(m_no_match))
        /\ fm_result.v # <<>>

\* The salary descriptor of the pair low, high.
SalaryDescriptor(low, high) ==
    IF low = 0 /\ high = 0 THEN <<"u5f85", "u9047", "u9762", "u8b70">>
    ELSE IF high = 9999999 THEN ToDigits(low) \o <<" ", "u5143", "u4ee5", "u4e0a">>
    ELSE ToDigits(low) \o <<" ", "-", " ">> \o ToDigits(high) \o <<" ", "u5143">>

\* The jobs the text lists.
ShownJobs ==
    IF Get(fm_payload, "status", VNull) = VNum(200) /\ TotalCount(fm_payload) # 0
    THEN Take(RecordList(fm_payload), fm_max_jobs) ELSE <<>>

\* C23: the salary line of every job listed carries the descriptor computed
\* from the job's salaryLow and salaryHigh: low and above for the ceiling
\* 9999999, negotiable for 0 and 0, and low - high otherwise.
C23_SalaryDescriptorFromPair ==
    fm_pc = "returned" =>
        \A i \in 1..Len(ShownJobs) :
            Contains(fm_result.v,
                     <<" ", " ", " ", "u85aa", "u8cc7", "uff1a">>
                     \o SalaryDescriptor(ShownJobs[i]["salaryLow"].v, ShownJobs[i]["salaryHigh"].v)
                     \o <<"\n">>)

(***************************************************************************)
(* C25, C29                                                                *)
(***************************************************************************)
\* extract_104_dynamic_content has just returned its result for the page.
Extracted104 ==
    /\ pc = "dyn_close"
    /\ is_104(url)
    /\ content.kind \in {"structured", "cleaned"}

\* The number of sections of sections_to_extract recovered from the page.
RecoveredSections == Len(SectionBlocks(StrippedLines(page.lines), 1))

\* C25: extract_104_dynamic_content returns the structured result only when
\* three sections or more were recovered, and the cleaned text when fewer
\* were, whether or not a title and a company were found.
C25_StructuredNeedsThreeSections ==
    Extracted104 =>
        /\ (content.kind = "structured" => RecoveredSections >= 3)
        /\ (RecoveredSections < 3 => content.kind = "cleaned")

\* The number of the first of the lines that contains one of the markers,
\* and the number after the last line if none does.
FirstLineWith(lines, markers) ==
    IF \E i \in 1..Len(lines) : \E marker \in markers : LineHas(lines[i], marker)
    THEN CHOOSE i \in 1..Len(lines) :
             /\ \E marker \in markers : LineHas(lines[i], marker)
             /\ \A k \in 1..(i - 1) : ~\E marker \in markers : LineHas(lines[k], marker)
    ELSE Len(lines) + 1

\* The lines from the first line with a start marker to the line before the
\* first line with a stop marker that contain no skip pattern.
BoundedLines(lines) ==
    {lines[i] : i \in {k \in FirstLineWith(lines, content_start_markers)
                               ..(FirstLineWith(lines, content_end_markers) - 1) :
                          ~\E pattern \in skip_patterns : LineHas(lines[k], pattern)}}

\* C29: the cleaned text holds no line from before the first line with a
\* start marker, no line at or after the first line with a stop marker, and
\* no line with a skip pattern.
C29_CleanedTextIsBounded ==
    (Extracted104 /\ content.kind = "cleaned") =>
        \A k \in 1..Len(content.text) :
            content.text[k] \in BoundedLines(StrippedLines(page.lines))

(***************************************************************************)
(* extract_section of workflow/job_analysis.py on its own, on the lines    *)
(* and the marker pairs that extract_104_dynamic_content passes.           *)
(***************************************************************************)
MaxSectionLines == 3

SectionLineChoices ==
    {Text(m_job_content), Text(m_job_category), Text(m_compensation),
     Text(m_job_content \o <<"x">>), Text(m_job_content \o m_job_category),
     Text(<<"a">>), Text(m_comma)}

SectionInputs ==
    UNION {[1..n -> SectionLineChoices] : n \in 0..MaxSectionLines}

MarkerPairs == {sections_to_extract[k] : k \in 1..2}

InitSection ==
    /\ xs_lines \in SectionInputs
    /\ \E pair \in MarkerPairs : xs_start = pair.start /\ xs_end = pair.stop
    /\ xs_pc = "call"
    /\ xs_result = <<>>
    /\ IdleBase /\ IdleSecRest

\* The call extract_section(xs_lines, xs_start, xs_end) and its return.
SectionCall ==
    /\ xs_pc = "call"
    /\ xs_pc' = "returned"
    /\ xs_result' = extract_section(xs_lines, xs_start, xs_end)
    /\ UNCHANGED <<xs_lines, xs_start, xs_end, baseVars, secRest>>

NextSection == SectionCall

SpecSection == InitSection /\ [][NextSection]_vars

\* The number of the first line after line first that contains the marker,
\* and the number after the last line if none does.
FirstLaterLineWith(lines, first, marker) ==
    IF \E i \in (first + 1)..Len(lines) : LineHas(lines[i], marker)
    THEN CHOOSE i \in (first + 1)..Len(lines) :
             /\ LineHas(lines[i], marker)
             /\ \A k \in (first + 1)..(i - 1) : ~LineHas(lines[k], marker)
    ELSE Len(lines) + 1

\* out holds lines of s only, in the order of s.
RECURSIVE IsSubsequence(_, _)
IsSubsequence(out, s) ==
    IF out = <<>> THEN TRUE
    ELSE IF s = <<>> THEN FALSE
    ELSE IF Head(out) = Head(s) THEN IsSubsequence(Tail(out), Tail(s))
    ELSE IsSubsequence(out, Tail(s))

HasStartLine == \E i \in 1..Len(xs_lines) : LineHas(xs_lines[i], xs_start)

\* The lines from the first line with the start marker to the line before
\* the first later line with the end marker.
SectionWindow ==
    LET first == FirstLineWith(xs_lines, {xs_start})
    IN  SubSeq(xs_lines, first, FirstLaterLineWith(xs_lines, first, xs_end) - 1)

\* C30: the result of extract_section holds only lines from the first line
\* with the start marker to the line before the first later line with the
\* end marker, in their order; it is empty when no line has the start
\* marker; and a line equal to the start marker is never in it.
C30_SectionIsTheMarkedWindow ==
    xs_pc = "returned" =>
        /\ IsSubsequence(xs_result, SectionWindow)
        /\ (~HasStartLine => xs_result = <<>>)
        /\ \A k \in 1..Len(xs_result) : xs_result[k] # Text(xs_start)

\* The clauses of C30 that do not depend on a line with both markers.
SectionEmptyWithoutStart ==
    xs_pc = "returned" =>
        /\ (~HasStartLine => xs_result = <<>>)
        /\ \A k \in 1..Len(xs_result) : xs_result[k] # Text(xs_start)
        /\ IsSubsequence(xs_result,
                         SubSeq(xs_lines, FirstLineWith(xs_lines, {xs_start}), Len(xs_lines)))

(***************************************************************************)
(* The slash commands of bot/commands.py: job_search and job_analysis,     *)
(* as coroutines of the one event loop of the bot.  A coroutine runs until *)
(* it awaits; a call that does not await keeps the loop until it returns.  *)
(***************************************************************************)
Requests == {"r1", "r2"}

Commands == {"job_search", "job_analysis"}

m_ack_search     == <<"u1f50d", " ", "u6b63", "u5728", "u641c", "u5c0b", "u5de5", "u4f5c", "u4e2d", "uff0c", "u8acb", "u8010", "u5fc3", "u7b49", "u5019", ".", ".", ".">>
m_ack_analysis   == <<"u1f50d", " ", "u6b63", "u5728", "u5206", "u6790", "u8077", "u7f3a", "u4e2d", "uff0c", "u8acb", "u8010", "u5fc3", "u7b49", "u5019", ".", ".", ".">>
m_search_failure == <<"u274c", " ", "u641c", "u5c0b", "u6642", "u767c", "u751f", "u932f", "u8aa4", "uff1a">>
m_analysis_failure == <<"u274c", " ", "u5206", "u6790", "u6642", "u767c", "u751f", "u932f", "u8aa4", "uff1a">>
m_llm_failed     == <<"L", "L", "M">>
m_not_subscriptable == <<"'NoneType' object is not subscriptable">>
m_no_len         == <<"object of type 'NoneType' has no len()">>
m_discord_failed == <<"H", "T", "T", "P">>

\* len(analysis_report) > 2000 and analysis_report[i:i+2000]
message_limit == 2000

\* Only the first piece of the text.
first_chunk_only(s) == <<Slice(s, 0, message_limit)>>

\* [s[i:i+2000] for i in range(i, len(s), 2000)]
RECURSIVE ChunksFrom(_, _)
ChunksFrom(s, i) ==
    IF i >= Len(s) THEN <<>>
    ELSE <<Slice(s, i, i + message_limit)>> \o ChunksFrom(s, i + message_limit)

\* chunks = [analysis_report[i:i+2000] for i in range(0, len(analysis_report), 2000)]
chunks_of(s) == ChunksFrom(s, 0)

\* The acknowledgement and the error message of a command.
ack_of(cmd) == IF cmd = "job_search" THEN m_ack_search ELSE m_ack_analysis

error_text(cmd, e) ==
    (IF cmd = "job_search" THEN m_search_failure ELSE m_analysis_failure) \o e.msg

\* The external calls of a pipeline in their order.  chat_with_job_search
\* calls the LLM, and for a search the 104 API and the LLM again;
\* analyze_job_detail fetches the page of a URL in the query with the
\* browser or with requests.get, and calls the LLM.
Plans(cmd) ==
    IF cmd = "job_search"
    THEN {<<"llm">>, <<"llm", "search", "llm">>}
    ELSE {<<"llm">>, <<"dynamic_fetch", "llm">>, <<"static_fetch", "llm">>}

\* Only the fetch with the browser is awaited; call_llm, search_104_jobs
\* and fetch_static_content call requests and return when it returns.
is_awaited(call) == call = "dynamic_fetch"

\* A text of n characters in which no two pieces of 2000 are equal.
ReportAlphabet == <<"a", "b", "c", "d", "e", "f", "g">>

ReportOf(n) == [i \in 1..n |-> ReportAlphabet[(i % Len(ReportAlphabet)) + 1]]

ReportLengths == {1, message_limit, message_limit + 1, 2 * message_limit + 1}

\* The dictionaries a pipeline can return.
Finals(cmd) ==
    IF cmd = "job_search"
    THEN {("final_response" :> VStr(<<"o", "k">>))}
    ELSE {("analysis_report" :> VStr(ReportOf(n))) : n \in ReportLengths}
         \cup {("analysis_report" :> VNull)}

\* The exceptions a failing call of the LLM raises: the request fails, or
\* the response has no choices.
LLMFailures == {Exc("Exception", m_llm_failed), Exc("TypeError", m_not_subscriptable)}

DiscordFailure == Exc("Exception", m_discord_failed)

Call(op, body, ok) == [op |-> op, body |-> body, ok |-> ok]

InitBot ==
    /\ bt_cmd = [r \in Requests |-> "none"]
    /\ bt_pc = [r \in Requests |-> "idle"]
    /\ bt_plan = [r \in Requests |-> <<>>]
    /\ bt_outcome = [r \in Requests |-> Nothing]
    /\ bt_exc = [r \in Requests |-> Nothing]
    /\ bt_log = [r \in Requests |-> <<>>]
    /\ bt_todo = [r \in Requests |-> <<>>]
    /\ bt_loop = "free"
    /\ IdleBase /\ IdleBotRest

\* The loop starts the handler of a command.
Invoke(r) ==
    /\ bt_pc[r] = "idle"
    /\ bt_loop = "free"
    /\ \E cmd \in Commands : \E plan \in Plans(cmd) :
           /\ bt_cmd' = [bt_cmd EXCEPT ![r] = cmd]
           /\ bt_plan' = [bt_plan EXCEPT ![r] = plan]
    /\ bt_pc' = [bt_pc EXCEPT ![r] = "ack"]
    /\ UNCHANGED <<bt_outcome, bt_exc, bt_log, bt_todo, bt_loop, baseVars, botRest>>

\* await interaction.response.send_message(...), before the try block.
SendAck(r) ==
    /\ bt_pc[r] = "ack"
    /\ bt_loop = "free"
    /\ \E ok \in BOOLEAN :
           /\ bt_log' = [bt_log EXCEPT ![r] = Append(@, Call("send_message", ack_of(bt_cmd[r]), ok))]
           /\ bt_pc' = [bt_pc EXCEPT ![r] = IF ok THEN "pipeline" ELSE "escaped"]
    /\ UNCHANGED <<bt_cmd, bt_plan, bt_outcome, bt_exc, bt_todo, bt_loop, baseVars, botRest>>

\* The pipeline makes its first external call.
BeginCall(r) ==
    /\ bt_pc[r] = "pipeline"
    /\ bt_loop = "free"
    /\ bt_pc' = [bt_pc EXCEPT ![r] = "waiting"]
    /\ bt_loop' = IF is_awaited(Head(bt_plan[r])) THEN "free" ELSE r
    /\ UNCHANGED <<bt_cmd, bt_plan, bt_outcome, bt_exc, bt_log, bt_todo, baseVars, botRest>>

\* The pipeline returns final, or raises e.
PipelineReturns(r, final) ==
    /\ bt_outcome' = [bt_outcome EXCEPT ![r] = final]
    /\ bt_plan' = [bt_plan EXCEPT ![r] = <<>>]
    /\ bt_pc' = [bt_pc EXCEPT ![r] = "deliver"]
    /\ bt_loop' = "free"
    /\ UNCHANGED bt_exc

PipelineRaises(r, e) ==
    /\ bt_exc' = [bt_exc EXCEPT ![r] = e]
    /\ bt_plan' = [bt_plan EXCEPT ![r] = <<>>]
    /\ bt_pc' = [bt_pc EXCEPT ![r] = "failed"]
    /\ bt_loop' = "free"
    /\ UNCHANGED bt_outcome

\* The pipeline goes on to its next external call, which is never awaited.
PipelineGoesOn(r) ==
    /\ bt_plan' = [bt_plan EXCEPT ![r] = Tail(@)]
    /\ bt_loop' = r
    /\ UNCHANGED <<bt_pc, bt_outcome, bt_exc>>

\* The external call the pipeline waits on returns or fails.  A failure of
\* the LLM leaves the pipeline as an exception, a failure of the search is
\* turned into the final text by chat_with_job_search, and a failed fetch
\* is a page without content.
EndCall(r) ==
    /\ bt_pc[r] = "waiting"
    /\ bt_loop = IF is_awaited(Head(bt_plan[r])) THEN "free" ELSE r
    /\ \E ok \in BOOLEAN :
           LET call == Head(bt_plan[r])
           IN  IF ~ok /\ call = "llm"
               THEN \E e \in LLMFailures : PipelineRaises(r, e)
               ELSE IF ~ok /\ call = "search"
               THEN PipelineReturns(r, ("final_response" :> VStr(m_search_error \o m_fetch_failed)))
               ELSE IF Tail(bt_plan[r]) = <<>>
               THEN \E final \in Finals(bt_cmd[r]) : PipelineReturns(r, final)
               ELSE PipelineGoesOn(r)
    /\ UNCHANGED <<bt_cmd, bt_log, bt_todo, baseVars, botRest>>

\* await interaction.edit_original_response(content=body) inside the try
\* block, with the chunks still to send after it.
EditInTry(r, body, rest) ==
    \E ok \in BOOLEAN :
        /\ bt_log' = [bt_log EXCEPT ![r] = Append(@, Call("edit", body, ok))]
        /\ bt_todo' = [bt_todo EXCEPT ![r] = IF ok THEN rest ELSE <<>>]
        /\ bt_exc' = [bt_exc EXCEPT ![r] = IF ok THEN @ ELSE DiscordFailure]
        /\ bt_pc' = [bt_pc EXCEPT ![r] =
                        IF ~ok THEN "failed" ELSE IF rest = <<>> THEN "done" ELSE "followups"]

\* The handler takes the text out of the dictionary and edits the
\* original response: job_search to the final response, job_analysis to the
\* report or to its first chunk.
Deliver(r) ==
    /\ bt_pc[r] = "deliver"
    /\ bt_loop = "free"
    /\ IF bt_cmd[r] = "job_search"
       THEN EditInTry(r, bt_outcome[r]["final_response"].v, <<>>)
       ELSE LET analysis_report == bt_outcome[r]["analysis_report"]
            IN  IF analysis_report = VNull
                THEN /\ bt_exc' = [bt_exc EXCEPT ![r] = Exc("TypeError", m_no_len)]
                     /\ bt_pc' = [bt_pc EXCEPT ![r] = "failed"]
                     /\ UNCHANGED <<bt_log, bt_todo>>
                ELSE IF Len(analysis_report.v) > message_limit
                THEN EditInTry(r, Head(chunks_of(analysis_report.v)),
                               Tail(chunks_of(analysis_report.v)))
                ELSE EditInTry(r, analysis_report.v, <<>>)
    /\ UNCHANGED <<bt_cmd, bt_plan, bt_outcome, bt_loop, baseVars, botRest>>

\* await interaction.followup.send(chunk) for the next chunk.
Followup(r) ==
    /\ bt_pc[r] = "followups"
    /\ bt_loop = "free"
    /\ \E ok \in BOOLEAN :
           /\ bt_log' = [bt_log EXCEPT ![r] = Append(@, Call("followup", Head(bt_todo[r]), ok))]
           /\ bt_todo' = [bt_todo EXCEPT ![r] = IF ok THEN Tail(@) ELSE <<>>]
           /\ bt_exc' = [bt_exc EXCEPT ![r] = IF ok THEN @ ELSE DiscordFailure]
           /\ bt_pc' = [bt_pc EXCEPT ![r] =
                           IF ~ok THEN "failed"
                           ELSE IF Tail(bt_todo[r]) = <<>> THEN "done" ELSE "followups"]
    /\ UNCHANGED <<bt_cmd, bt_plan, bt_outcome, bt_loop, baseVars, botRest>>

\* except Exception as e: the original response is edited to the error
\* message; an exception of this edit leaves the handler.
ErrorEdit(r) ==
    /\ bt_pc[r] = "failed"
    /\ bt_loop = "free"
    /\ IF except_Exception_catches(bt_exc[r])
       THEN \E ok \in BOOLEAN :
                /\ bt_log' = [bt_log EXCEPT ![r] =
                                 Append(@, Call("edit", error_text(bt_cmd[r], bt_exc[r]), ok))]
                /\ bt_pc' = [bt_pc EXCEPT ![r] = IF ok THEN "done" ELSE "escaped"]
       ELSE /\ bt_pc' = [bt_pc EXCEPT ![r] = "escaped"]
            /\ UNCHANGED bt_log
    /\ UNCHANGED <<bt_cmd, bt_plan, bt_outcome, bt_exc, bt_todo, bt_loop, baseVars, botRest>>

NextBot ==
    \E r \in Requests :
        \/ Invoke(r)
        \/ SendAck(r)
        \/ BeginCall(r)
        \/ EndCall(r)
        \/ Deliver(r)
        \/ Followup(r)
        \/ ErrorEdit(r)

SpecBot == InitBot /\ [][NextBot]_vars

(***************************************************************************)
(* C24, C26, C27                                                           *)
(***************************************************************************)
\* The handler of r has ended normally and no exception was raised in its
\* try block.
DeliveredReport(r) ==
    /\ bt_cmd[r] = "job_analysis"
    /\ bt_pc[r] = "done"
    /\ bt_exc[r] = Nothing

\* The messages of r after the acknowledgement.
MessagesOf(r) == SubSeq(bt_log[r], 2, Len(bt_log[r]))

BodiesOf(r) == [k \in 1..Len(MessagesOf(r)) |-> MessagesOf(r)[k].body]

\* C24: a report of more than 2000 characters is delivered as messages of
\* at most 2000 characters each, the first by an edit of the original
\* response and the others as follow-ups, whose bodies in the order sent
\* make up the report; a report of at most 2000 characters is one message,
\* the report.
C24_ReportIsChunkedInOrder ==
    \A r \in Requests :
        DeliveredReport(r) =>
            LET report == bt_outcome[r]["analysis_report"].v
            IN  /\ MessagesOf(r) # <<>>
                /\ MessagesOf(r)[1].op = "edit"
                /\ \A k \in 2..Len(MessagesOf(r)) : MessagesOf(r)[k].op = "followup"
                /\ \A k \in 1..Len(MessagesOf(r)) : Len(MessagesOf(r)[k].body) <= message_limit
                /\ Concat(BodiesOf(r)) = report
                /\ (Len(report) <= message_limit => BodiesOf(r) = <<report>>)

C24_Witness ==
    \E r \in Requests :
        /\ DeliveredReport(r)
        /\ Len(bt_outcome[r]["analysis_report"].v) = 2 * message_limit + 1
        /\ Len(MessagesOf(r)) = 3
        /\ Len(MessagesOf(r)[3].body) = 1

\* A call on the interaction of r failed.
DeliveryFailed(r) == \E k \in 1..Len(bt_log[r]) : ~bt_log[r][k].ok

FollowupFailed(r) ==
    \E k \in 1..Len(bt_log[r]) : bt_log[r][k].op = "followup" /\ ~bt_log[r][k].ok

\* The edits of the original response of r that went through.
RECURSIVE EditsIn(_)
EditsIn(log) ==
    IF log = <<>> THEN <<>>
    ELSE (IF Head(log).op = "edit" /\ Head(log).ok THEN <<Head(log).body>> ELSE <<>>)
         \o EditsIn(Tail(log))

\* No exception of the pipeline leaves the handler, and the first call on
\* the interaction is the acknowledgement.
PipelineFailureIsHandled(r) ==
    /\ (bt_pc[r] = "escaped" => DeliveryFailed(r))
    /\ (bt_log[r] # <<>> => bt_log[r][1] = Call("send_message", ack_of(bt_cmd[r]), bt_log[r][1].ok))
    /\ (bt_pc[r] \notin {"idle", "ack"} => bt_log[r] # <<>>)

\* C26 as stated: no exception of a pipeline leaves the handler, the
\* acknowledgement is sent first, and the original response is then edited
\* exactly once, to the final text or its first chunk or to the error
\* message, never to both.
C26_OneTerminalEdit ==
    \A r \in Requests :
        /\ PipelineFailureIsHandled(r)
        /\ (bt_pc[r] = "done" => Len(EditsIn(bt_log[r])) = 1)

\* C26 as the handlers behave: as stated, except that after a follow-up
\* send has failed the original response, which holds the first chunk, is
\* edited a second time, to the error message.
C26_OneTerminalEditUnlessFollowupFails ==
    \A r \in Requests :
        /\ PipelineFailureIsHandled(r)
        /\ (bt_pc[r] = "done" =>
               LET edits == EditsIn(bt_log[r])
               IN  IF FollowupFailed(r)
                   THEN edits = <<Head(chunks_of(bt_outcome[r]["analysis_report"].v)),
                                  error_text(bt_cmd[r], bt_exc[r])>>
                   ELSE IF bt_exc[r] # Nothing
                   THEN edits = <<error_text(bt_cmd[r], bt_exc[r])>>
                   ELSE IF bt_cmd[r] = "job_search"
                   THEN edits = <<bt_outcome[r]["final_response"].v>>
                   ELSE edits = <<Head(chunks_of(bt_outcome[r]["analysis_report"].v))>>)

C26_Witness ==
    \E r \in Requests :
        /\ bt_pc[r] = "done"
        /\ bt_exc[r] = Exc("TypeError", m_not_subscriptable)
        /\ bt_log[r] = <<Call("send_message", m_ack_analysis, TRUE),
                         Call("edit", m_analysis_failure \o m_not_subscriptable, TRUE)>>

\* C27: while the pipeline of a request waits on an external call the
\* event loop is free to start and to complete other requests.
C27_WaitingLeavesLoopFree ==
    \A r \in Requests : bt_pc[r] = "waiting" => bt_loop = "free"

(***************************************************************************)
(* C28: the two orchestrators, chat_with_job_search of workflow/           *)
(* job_search.py and of llm_job_search_example.py, side by side.           *)
(***************************************************************************)
InitOrch == InitChat \/ InitTool

NextOrch == NextChat \/ NextTool

SpecOrch == InitOrch /\ [][NextOrch]_vars

\* execute_job_search_tool was called during the request.
SearchIssued(calls) == \E k \in 1..Len(calls) : calls[k] = "search"

\* C28: in every result returned by either orchestrator the flag is true
\* exactly when a search call was issued during the request, and
\* search_results is not empty only when the flag is true.
C28_FlagIffSearchIssued ==
    /\ cj_pc = "returned" =>
           /\ IsTruthy(cj_result.need_search) <=> SearchIssued(cj_calls)
           /\ cj_result.search_results # <<>> => IsTruthy(cj_result.need_search)
    /\ tc_pc = "returned" =>
           /\ tc_result.has_tool_call <=> SearchIssued(tc_calls)
           /\ tc_result.search_results # <<>> => tc_result.has_tool_call

\* The direction of C28 that both orchestrators keep: a search is issued
\* and search_results is filled only when the flag is true.
SearchOnlyWithFlag ==
    /\ cj_pc = "returned" =>
           /\ SearchIssued(cj_calls) => IsTruthy(cj_result.need_search)
           /\ IsTruthy(cj_result.need_search) => SearchIssued(cj_calls)
           /\ cj_result.search_results # <<>> => IsTruthy(cj_result.need_search)
    /\ tc_pc = "returned" =>
           /\ SearchIssued(tc_calls) => tc_result.has_tool_call
           /\ tc_result.search_results # <<>> => tc_result.has_tool_call

====
